---- MODULE Spec2Model ----
(***************************************************************************)
(* A model of the `rand` module of huy: the xoshiro256++ generator         *)
(* (rand/rng.rs), the typed sampling layer (rand/random.rs) and the        *)
(* uniform integer distribution (rand/integer.rs).                         *)
(*                                                                         *)
(* A u64 is modelled exactly, as the sequence of its eight base-256 digits *)
(* with the least significant digit first, so that 64-bit wrapping         *)
(* arithmetic, shifts, rotations and byte encodings are computed as the    *)
(* code computes them.                                                     *)
(***************************************************************************)
EXTENDS Integers, Sequences, FiniteSets

VARIABLES
    rng,      \* the generator: [state |-> the four u64 state words]
    calls,    \* number of next_u64 calls made on the generator since it was built
    last,     \* the last operation performed on the generator, its inputs and outputs
    dist,     \* the UniformInt distribution under construction / in use
    samp,     \* progress of the current UniformInt::sample call
    other,    \* a second generator, made by rng.clone()
    jumps     \* number of jump and long_jump calls made on the generator

vars == <<rng, calls, last, dist, samp, other, jumps>>

(***************************************************************************)
(* Bounds of the model.                                                    *)
(***************************************************************************)
\* the generator is drawn from at most MaxCalls times
MaxCalls == 10
\* fill_bytes is called on buffers of length 0..MaxLen
MaxLen == 17

(***************************************************************************)
(* 64-bit words.                                                           *)
(***************************************************************************)
Byte == 0..255

Pow2 == <<1, 2, 4, 8, 16, 32, 64, 128, 256>>

\* the u64 written with its bytes most significant first, as in a hex literal
U64(b7, b6, b5, b4, b3, b2, b1, b0) == <<b0, b1, b2, b3, b4, b5, b6, b7>>

Zero64 == U64(0, 0, 0, 0, 0, 0, 0, 0)
Ones64 == U64(255, 255, 255, 255, 255, 255, 255, 255)
\* a small value as a u64
Small64(n) == U64(0, 0, 0, 0, 0, 0, 0, n)

\* bit i (0 = least significant) of the u64 w
Bit(w, i) == (w[(i \div 8) + 1] \div Pow2[(i % 8) + 1]) % 2

\* the eight digits d[1..8] as a u64
Digits8(d) == <<d[1], d[2], d[3], d[4], d[5], d[6], d[7], d[8]>>

\* the digit at position i of w (1 = least significant), 0 outside the word
Digit(w, i) == IF i >= 1 /\ i <= 8 THEN w[i] ELSE 0

\* exclusive or of two 4-bit values, bit by bit
XorNibble ==
    [x \in 0..15 |-> [y \in 0..15 |->
        ((x + y) % 2)
        + 2 * (((x \div 2) + (y \div 2)) % 2)
        + 4 * (((x \div 4) + (y \div 4)) % 2)
        + 8 * (((x \div 8) + (y \div 8)) % 2)]]

\* exclusive or of two bytes
xor_byte(x, y) == 16 * XorNibble[x \div 16][y \div 16] + XorNibble[x % 16][y % 16]

\* a ^ b
xor(a, b) == Digits8([j \in 1..8 |-> xor_byte(a[j], b[j])])

\* a << k for 0 <= k < 64, bits shifted out are lost
shl(a, k) ==
    LET q == k \div 8
        r == k % 8
    IN  Digits8([j \in 1..8 |->
            ((Digit(a, j - q) * Pow2[r + 1]) % 256)
            + (Digit(a, j - q - 1) \div Pow2[8 - r + 1])])

\* a >> k (logical) for 0 <= k < 64
shr(a, k) ==
    LET q == k \div 8
        r == k % 8
    IN  Digits8([j \in 1..8 |->
            (Digit(a, j + q) \div Pow2[r + 1])
            + ((Digit(a, j + q + 1) * Pow2[8 - r + 1]) % 256)])

\* u64::rotate_left for 0 <= k < 64: as shl, with the bits shifted out
\* re-entering at the low end
rotate_left(a, k) ==
    LET q == k \div 8
        r == k % 8
        Cyc(i) == a[((i + 15) % 8) + 1]
    IN  Digits8([j \in 1..8 |->
            ((Cyc(j - q) * Pow2[r + 1]) % 256)
            + (Cyc(j - q - 1) \div Pow2[8 - r + 1])])

\* u64::wrapping_add
wrapping_add(a, b) ==
    LET s1 == a[1] + b[1]
        s2 == a[2] + b[2] + (s1 \div 256)
        s3 == a[3] + b[3] + (s2 \div 256)
        s4 == a[4] + b[4] + (s3 \div 256)
        s5 == a[5] + b[5] + (s4 \div 256)
        s6 == a[6] + b[6] + (s5 \div 256)
        s7 == a[7] + b[7] + (s6 \div 256)
        s8 == a[8] + b[8] + (s7 \div 256)
    IN  <<s1 % 256, s2 % 256, s3 % 256, s4 % 256,
          s5 % 256, s6 % 256, s7 % 256, s8 % 256>>

\* u64::wrapping_mul: the low 64 bits of the product
wrapping_mul(a, b) ==
    LET col(k) == LET term[i \in 0..k] ==
                          a[i + 1] * b[k - i + 1] + (IF i = 0 THEN 0 ELSE term[i - 1])
                  IN  term[k]
        acc[k \in 0..7] == col(k) + (IF k = 0 THEN 0 ELSE acc[k - 1] \div 256)
    IN  Digits8([j \in 1..8 |-> acc[j - 1] % 256])

\* the eight bytes most significant first: the byte order a big-endian
\* encoding would give
to_be_bytes(w) == <<w[8] % 256, w[7] % 256, w[6] % 256, w[5] % 256,
                    w[4] % 256, w[3] % 256, w[2] % 256, w[1] % 256>>

\* u64::to_le_bytes: the eight bytes, least significant first
to_le_bytes(w) == Digits8([j \in 1..8 |-> w[j] % 256])

\* the word read with its bytes in the opposite order, as u64::from_be
\* would on a little-endian target
from_be(mem) == <<mem[8], mem[7], mem[6], mem[5], mem[4], mem[3], mem[2], mem[1]>>

\* u64::from_le on a little-endian target applied to the native word read
\* from eight bytes of memory: byte j of memory is digit j
from_le(mem) == Digits8([j \in 1..8 |-> mem[j]])

(***************************************************************************)
(* SplitMix64 (rng.rs 144-158).                                            *)
(***************************************************************************)
GoldenGamma == U64(\h9e, \h37, \h79, \hb9, \h7f, \h4a, \h7c, \h15)
MixMul1 == U64(\hbf, \h58, \h47, \h6d, \h1c, \he4, \he5, \hb9)
MixMul2 == U64(\h94, \hd0, \h49, \hbb, \h13, \h31, \h11, \heb)

\* SplitMix64::next_u64 with the two xor-shift amounts 30 and 27 exchanged
splitmix_next_u64_shifts(s) ==
    LET st == wrapping_add(s, GoldenGamma)
        z1 == wrapping_mul(xor(st, shr(st, 27)), MixMul1)
        z2 == wrapping_mul(xor(z1, shr(z1, 30)), MixMul2)
    IN  [state |-> st, result |-> xor(z2, shr(z2, 31))]

\* SplitMix64::next_u64 with the output mixed from the state before the
\* increment
splitmix_next_u64_stale(s) ==
    LET st == wrapping_add(s, GoldenGamma)
        z1 == wrapping_mul(xor(s, shr(s, 30)), MixMul1)
        z2 == wrapping_mul(xor(z1, shr(z1, 27)), MixMul2)
    IN  [state |-> st, result |-> xor(z2, shr(z2, 31))]

\* SplitMix64::next_u64: the new scalar state and the output
splitmix_next_u64(s) ==
    LET st == wrapping_add(s, GoldenGamma)
        z1 == wrapping_mul(xor(st, shr(st, 30)), MixMul1)
        z2 == wrapping_mul(xor(z1, shr(z1, 27)), MixMul2)
    IN  [state |-> st, result |-> xor(z2, shr(z2, 31))]

(***************************************************************************)
(* Rng (rng.rs 9-96).                                                      *)
(***************************************************************************)
\* next_u64 with the output computed from the state AFTER the advance
next_u64_late(st) ==
    LET t  == shl(st[2], 17)
        a2 == xor(st[3], st[1])
        a3 == xor(st[4], st[2])
        a1 == xor(st[2], a2)
        a0 == xor(st[1], a3)
        b2 == xor(a2, t)
        b3 == rotate_left(a3, 45)
    IN  [state |-> <<a0, a1, b2, b3>>,
         result |-> wrapping_add(rotate_left(wrapping_add(a0, b3), 23), a0)]

\* next_u64 with t = state[1] << 16
next_u64_shift16(st) ==
    LET result == wrapping_add(rotate_left(wrapping_add(st[1], st[4]), 23), st[1])
        t  == shl(st[2], 16)
        a2 == xor(st[3], st[1])
        a3 == xor(st[4], st[2])
        a1 == xor(st[2], a2)
        a0 == xor(st[1], a3)
        b2 == xor(a2, t)
        b3 == rotate_left(a3, 45)
    IN  [state |-> <<a0, a1, b2, b3>>, result |-> result]

\* next_u64 with state[3] shifted left by 45 instead of rotated
next_u64_shl45(st) ==
    LET result == wrapping_add(rotate_left(wrapping_add(st[1], st[4]), 23), st[1])
        t  == shl(st[2], 17)
        a2 == xor(st[3], st[1])
        a3 == xor(st[4], st[2])
        a1 == xor(st[2], a2)
        a0 == xor(st[1], a3)
        b2 == xor(a2, t)
        b3 == shl(a3, 45)
    IN  [state |-> <<a0, a1, b2, b3>>, result |-> result]

\* Rng::next_u64 on the state st (st[1..4] are state[0..3]): the new state
\* and the returned value
next_u64(st) ==
    LET result == wrapping_add(rotate_left(wrapping_add(st[1], st[4]), 23), st[1])
        t  == shl(st[2], 17)
        a2 == xor(st[3], st[1])          \* state[2] ^= state[0]
        a3 == xor(st[4], st[2])          \* state[3] ^= state[1]
        a1 == xor(st[2], a2)             \* state[1] ^= state[2]
        a0 == xor(st[1], a3)             \* state[0] ^= state[3]
        b2 == xor(a2, t)                 \* state[2] ^= t
        b3 == rotate_left(a3, 45)        \* state[3] = state[3].rotate_left(45)
    IN  [state |-> <<a0, a1, b2, b3>>, result |-> result]

\* the four little-endian words of a 32-byte seed, with no check for zero
from_seed_unchecked(seed) ==
    [state |-> << Digits8(SubSeq(seed, 1, 8)), Digits8(SubSeq(seed, 9, 16)),
                  Digits8(SubSeq(seed, 17, 24)), Digits8(SubSeq(seed, 25, 32)) >>]

\* Rng::seed_from_u64
seed_from_u64(seed) ==
    LET m1 == splitmix_next_u64(seed)
        m2 == splitmix_next_u64(m1.state)
        m3 == splitmix_next_u64(m2.state)
        m4 == splitmix_next_u64(m3.state)
    IN  [state |-> <<m1.result, m2.result, m3.result, m4.result>>]

\* Rng::from_seed on 32 bytes
from_seed(seed) ==
    IF \A k \in 1..32 : seed[k] = 0
    THEN seed_from_u64(Zero64)
    ELSE [state |-> << from_le(SubSeq(seed, 1, 8)),
                       from_le(SubSeq(seed, 9, 16)),
                       from_le(SubSeq(seed, 17, 24)),
                       from_le(SubSeq(seed, 25, 32)) >>]


\* the state after n further next_u64 calls, with the values they return
RECURSIVE draw_n(_, _)
draw_n(st, n) ==
    IF n = 0 THEN [state |-> st, results |-> <<>>]
    ELSE LET d == next_u64(st)
             r == draw_n(d.state, n - 1)
         IN  [state |-> r.state, results |-> <<d.result>> \o r.results]

\* Rng::fill_bytes, the loop over the complete 8-byte chunks of dest:
\* the new state, the bytes written and the number of next_u64 calls
RECURSIVE fill_chunks(_, _)
fill_chunks(st, nchunks) ==
    IF nchunks = 0 THEN [state |-> st, bytes |-> <<>>, draws |-> 0]
    ELSE LET \* the chunk written from the draw d, then the chunks r after it
             Join(d, r) == [state |-> r.state,
                            bytes |-> to_le_bytes(d.result) \o r.bytes,
                            draws |-> r.draws + 1]
             Chunk(d) == Join(d, fill_chunks(d.state, nchunks - 1))
         IN  Chunk(next_u64(st))

\* fill_bytes with the trailing partial chunk taken from the high end of the
\* extra draw's encoding
fill_bytes_tail_high(st, len) ==
    LET remainder == len % 8
        Partial(full, d) == [state |-> d.state,
                          bytes |-> full.bytes
                                    \o SubSeq(to_le_bytes(d.result), 9 - remainder, 8),
                          draws |-> full.draws + 1]
        Rest(full) == IF remainder # 0 THEN Partial(full, next_u64(full.state)) ELSE full
    IN  Rest(fill_chunks(st, len \div 8))

\* the chunks fill_bytes cuts a buffer of len bytes into: the complete 8-byte
\* chunks of chunks_exact_mut(8) and the remainder, when it is not empty
chunks_of(len) == (len \div 8) + (IF len % 8 # 0 THEN 1 ELSE 0)

\* Rng::fill_bytes on a buffer of len bytes
fill_bytes(st, len) ==
    LET remainder == len % 8
        \* the remainder, filled with the first bytes of one more draw d
        Partial(full, d) == [state |-> d.state,
                          bytes |-> full.bytes
                                    \o SubSeq(to_le_bytes(d.result), 1, remainder),
                          draws |-> full.draws + 1]
        Rest(full) == IF remainder # 0 THEN Partial(full, next_u64(full.state)) ELSE full
    IN  Rest(fill_chunks(st, len \div 8))

(***************************************************************************)
(* Random for the integer types (random.rs 51-94).                         *)
(***************************************************************************)
\* the integer types of impl_random_integers, on a 64-bit target
IntTypes == {"u8", "u16", "u32", "u64", "usize", "i8", "i16", "i32", "i64", "isize"}

\* size_of::<T>() in bytes
size_of(ty) ==
    CASE ty \in {"u8", "i8"} -> 1
      [] ty \in {"u16", "i16"} -> 2
      [] ty \in {"u32", "i32", "f32"} -> 4
      [] ty \in {"u64", "i64", "usize", "isize", "f64"} -> 8

\* `x as T` for a u64 x: the low size_of(T) bytes, as T lies in memory on a
\* little-endian target
truncate(x, ty) == SubSeq(x, 1, size_of(ty))

\* random for an integer type without the shift: the low bytes of the draw
random_int_low(st, ty) ==
    LET Cast(d) == [state |-> d.state, value |-> truncate(d.result, ty), draws |-> 1]
    IN  Cast(next_u64(st))

\* <T as Random>::random for an integer type
random_int(st, ty) ==
    LET OFFSET == 8 * (8 - size_of(ty))
        Cast(d) == [state |-> d.state,
                    value |-> truncate(shr(d.result, OFFSET), ty),
                    draws |-> 1]
    IN  Cast(next_u64(st))

\* as_byte_slice / the slice read back: element i of a slice of n elements
\* of type T is bytes [i * size, (i + 1) * size) of the byte slice
elements_of(bytes, ty, n) ==
    [i \in 1..n |-> SubSeq(bytes, (i - 1) * size_of(ty) + 1, i * size_of(ty))]

\* <T as Random>::fill_random for an integer type, on a slice of n elements
fill_random_int(st, ty, n) ==
    LET Read(f) == [state |-> f.state, elems |-> elements_of(f.bytes, ty, n),
                    draws |-> f.draws]
    IN  Read(fill_bytes(st, n * size_of(ty)))

\* Random::fill_random, the default body: one random per element, in index order
RECURSIVE fill_random_default(_, _, _)
fill_random_default(st, ty, n) ==
    IF n = 0 THEN [state |-> st, elems |-> <<>>, draws |-> 0]
    ELSE LET x == random_int(st, ty)
             r == fill_random_default(x.state, ty, n - 1)
         IN  [state |-> r.state, elems |-> <<x.value>> \o r.elems,
              draws |-> x.draws + r.draws]


(***************************************************************************)
(* Random for f32 and f64 (random.rs 97-112).  A float is the pair         *)
(* [mant, exp] standing for mant * 2^exp, kept canonical (mant odd, or     *)
(* mant = 0 and exp = 0), so that two floats are equal iff the pairs are.  *)
(***************************************************************************)
FloatTypes == {"f32", "f64"}

\* position of the highest set bit of a byte, -1 for zero
msb_byte(x) == IF x = 0 THEN -1 ELSE CHOOSE i \in 0..7 : Pow2[i + 1] <= x /\ x < Pow2[i + 2]

\* position of the lowest set bit of a non-zero byte
tz_byte(x) == CHOOSE i \in 0..7 : x % Pow2[i + 2] = Pow2[i + 1]

\* position of the highest set bit of the u64 v, -1 for zero
Msb(v) ==
    IF v = Zero64 THEN -1
    ELSE LET j == CHOOSE j \in 1..8 : v[j] # 0 /\ \A k \in (j + 1)..8 : v[k] = 0
         IN  8 * (j - 1) + msb_byte(v[j])

\* number of trailing zero bits of a non-zero u64
Tz(v) ==
    LET j == CHOOSE j \in 1..8 : v[j] # 0 /\ \A k \in 1..(j - 1) : v[k] = 0
    IN  8 * (j - 1) + tz_byte(v[j])

\* the float mant * 2^exp in canonical form
Float(mant, exp) ==
    IF mant = Zero64 THEN [mant |-> Zero64, exp |-> 0]
    ELSE [mant |-> shr(mant, Tz(mant)), exp |-> exp + Tz(mant)]

\* f32::MANTISSA_DIGITS and f64::MANTISSA_DIGITS: the bits of the significand
mantissa_digits(ty) == IF ty = "f32" THEN 24 ELSE 53

\* `v as f32` / `v as f64` for a u64 v: round to nearest, ties to even, at
\* the significand's width
as_float(v, ty) ==
    LET p == mantissa_digits(ty)
        m == Msb(v)
    IN  IF m < p THEN Float(v, 0)
        ELSE LET shift  == m + 1 - p
                 q      == shr(v, shift)
                 half   == Bit(v, shift - 1) = 1
                 sticky == \E j \in 0..(shift - 2) : Bit(v, j) = 1
                 odd    == Bit(q, 0) = 1
                 q1     == IF half /\ (sticky \/ odd)
                           THEN wrapping_add(q, Small64(1)) ELSE q
             IN  Float(q1, shift)

\* the $offset argument of impl_random_float
float_offset(ty) == IF ty = "f32" THEN 32 - 23 ELSE 64 - 52

\* SCALE = 1.0 / ((1u64 << (64 - $offset)) as $ty): a power of two, exact
SCALE(ty) == [mant |-> Small64(1), exp |-> 0 - (64 - float_offset(ty))]

\* the product of a float and a power of two (exact: no overflow or
\* underflow at the exponents that occur)
fmul_pow2(x, scale) == Float(x.mant, x.exp + scale.exp)

\* the float made of the raw draw x: (x >> $offset) as $ty * SCALE
float_from_u64(x, ty) ==
    LET unsigned == shr(x, float_offset(ty))
    IN  fmul_pow2(as_float(unsigned, ty), SCALE(ty))

\* <T as Random>::random for f32 and f64
random_float(st, ty) ==
    LET Make(d) == [state |-> d.state,
                    raw   |-> d.result,
                    value |-> float_from_u64(d.result, ty),
                    draws |-> 1]
    IN  Make(next_u64(st))

\* x < 1.0 and x = 1.0 for a float x >= 0
FloatLtOne(x) == x.mant = Zero64 \/ Msb(x.mant) + x.exp < 0
FloatIsOne(x) == x.mant = Small64(1) /\ x.exp = 0

(***************************************************************************)
(* Random for u128 and i128 (random.rs 70-95) and for bool (44-49).        *)
(***************************************************************************)
LargeTypes == {"u128", "i128"}

\* `x as u128` / `x as i128` for a u64 x: zero extension to 16 bytes
as_large(x) == x \o Zero64

\* a << 64 on a 128-bit value: the low 8 bytes move to the high 8 bytes
shl_64(a) == Zero64 \o SubSeq(a, 1, 8)

\* inclusive or of two 4-bit values, bit by bit
OrNibble ==
    [x \in 0..15 |-> [y \in 0..15 |->
        (IF (x % 2) + (y % 2) > 0 THEN 1 ELSE 0)
        + (IF ((x \div 2) % 2) + ((y \div 2) % 2) > 0 THEN 2 ELSE 0)
        + (IF ((x \div 4) % 2) + ((y \div 4) % 2) > 0 THEN 4 ELSE 0)
        + (IF (x \div 8) + (y \div 8) > 0 THEN 8 ELSE 0)]]

\* inclusive or of two bytes
or_byte(x, y) == 16 * OrNibble[x \div 16][y \div 16] + OrNibble[x % 16][y % 16]

\* a | b on 128-bit values
or_large(a, b) ==
    <<or_byte(a[1], b[1]), or_byte(a[2], b[2]), or_byte(a[3], b[3]),
      or_byte(a[4], b[4]), or_byte(a[5], b[5]), or_byte(a[6], b[6]),
      or_byte(a[7], b[7]), or_byte(a[8], b[8]), or_byte(a[9], b[9]),
      or_byte(a[10], b[10]), or_byte(a[11], b[11]), or_byte(a[12], b[12]),
      or_byte(a[13], b[13]), or_byte(a[14], b[14]), or_byte(a[15], b[15]),
      or_byte(a[16], b[16])>>

\* random for u128 / i128 with the first draw taken as the high word
random_large_hi_first(st, ty) ==
    LET Compose(h, l) == [state |-> l.state,
                          value |-> or_large(shl_64(as_large(h.value)),
                                             as_large(l.value)),
                          draws |-> h.draws + l.draws]
        Second(h) == Compose(h, random_int(h.state, "u64"))
    IN  Second(random_int(st, "u64"))

\* <T as Random>::random for u128 and i128: lo = u64::random, then
\* hi = u64::random, and (hi << 64) | lo
random_large(st, ty) ==
    LET Compose(lo, hi) == [state |-> hi.state,
                            value |-> or_large(shl_64(as_large(hi.value)),
                                               as_large(lo.value)),
                            draws |-> lo.draws + hi.draws]
        Second(lo) == Compose(lo, random_int(lo.state, "u64"))
    IN  Second(random_int(st, "u64"))

\* v > 0 for the i64 with the bytes v
gt_zero(v) == v[8] < 128 /\ v # Zero64

\* random for bool with zero counted as true
random_bool_nonneg(st) ==
    LET Test(r) == [state |-> r.state, value |-> r.value[8] < 128, draws |-> r.draws]
    IN  Test(random_int(st, "i64"))

\* <bool as Random>::random: i64::random(rng) > 0
random_bool(st) ==
    LET Test(r) == [state |-> r.state, value |-> gt_zero(r.value), draws |-> r.draws]
    IN  Test(random_int(st, "i64"))

(***************************************************************************)
(* Random for tuples and arrays (random.rs 114-145).                       *)
(***************************************************************************)
\* <T as Random>::random for the element type ty: the new state, the value
\* and the number of next_u64 calls
random_of(st, ty) ==
    CASE ty \in IntTypes -> random_int(st, ty)
      [] ty \in LargeTypes -> random_large(st, ty)
      [] ty = "bool" -> random_bool(st)
      [] ty \in FloatTypes ->
            LET Value(r) == [state |-> r.state, value |-> r.value, draws |-> r.draws]
            IN  Value(random_float(st, ty))

\* random for a tuple with the fields generated from the last to the first
RECURSIVE random_tuple_reversed(_, _)
random_tuple_reversed(st, tys) ==
    IF tys = <<>> THEN [state |-> st, value |-> <<>>, draws |-> 0]
    ELSE LET Cons(x, r) == [state |-> x.state,
                            value |-> <<x.value>> \o r.value,
                            draws |-> x.draws + r.draws]
             Then(r) == Cons(random_of(r.state, Head(tys)), r)
         IN  Then(random_tuple_reversed(st, Tail(tys)))

\* <(A, B, ...) as Random>::random for the field types tys: the tuple
\* expression (A::random(rng), B::random(rng), ...), evaluated left to right
RECURSIVE random_tuple(_, _)
random_tuple(st, tys) ==
    IF tys = <<>> THEN [state |-> st, value |-> <<>>, draws |-> 0]
    ELSE LET Cons(x, r) == [state |-> r.state,
                            value |-> <<x.value>> \o r.value,
                            draws |-> x.draws + r.draws]
             Then(x) == Cons(x, random_tuple(x.state, Tail(tys)))
         IN  Then(random_of(st, Head(tys)))

\* <[T; N] as Random>::random: x.write(T::random(rng)) for each slot of
\* data, in index order
RECURSIVE random_array(_, _, _)
random_array(st, ty, n) ==
    IF n = 0 THEN [state |-> st, value |-> <<>>, draws |-> 0]
    ELSE LET Cons(x, r) == [state |-> r.state,
                            value |-> <<x.value>> \o r.value,
                            draws |-> x.draws + r.draws]
             Then(x) == Cons(x, random_array(x.state, ty, n - 1))
         IN  Then(random_of(st, ty))

\* the next_u64 calls one random::<T> makes
draws_of(ty) == IF ty \in LargeTypes THEN 2 ELSE 1

\* the next_u64 calls that the fields tys take together
RECURSIVE sum_draws(_)
sum_draws(tys) == IF tys = <<>> THEN 0 ELSE draws_of(Head(tys)) + sum_draws(Tail(tys))

\* tuples have 1..MaxTuple fields
MaxTuple == 2

\* the field and element types of the tuples and arrays generated
ElemTypes == {"u8", "f64", "bool", "u128"}

\* the tuple types generated: their field types, in order
TupleShapes ==
    { <<a>> : a \in ElemTypes }
    \cup UNION { { Append(t, a) : a \in ElemTypes } :
                    t \in UNION { [1..n -> ElemTypes] : n \in 1..(MaxTuple - 1) } }

(***************************************************************************)
(* The generator and the operations on it.                                 *)
(***************************************************************************)
\* the 32-byte seed holding the little-endian encodings of four words
SeedOf(w0, w1, w2, w3) ==
    to_le_bytes(w0) \o to_le_bytes(w1) \o to_le_bytes(w2) \o to_le_bytes(w3)

\* the 32-byte seeds the generator is built from
Seeds32 ==
    { SeedOf(Zero64, Zero64, Zero64, Zero64),
      SeedOf(Small64(1), Small64(2), Small64(3), Small64(4)),
      SeedOf(Zero64, Zero64, Zero64, Ones64),
      SeedOf(Zero64, Zero64, Small64(1), Zero64),
      [k \in 1..32 |-> (7 * k) % 256] }

\* the u64 seeds the generator is built from
Seeds64 ==
    { Zero64, U64(\h01, \h23, \h45, \h67, \h89, \hab, \hcd, \hef) }

\* buffer lengths of fill_random
MaxElems == 2
\* the clone is drawn from at most MaxCloneCalls times
MaxCloneCalls == 3
\* random and fill_random are called while the generator has made at most
\* MaxTypedCalls draws
MaxTypedCalls == 4

Idle == [pc |-> "idle"]
\* the generator behind the raw draws of SpecUniform, where a draw is any word
AnyRng == [state |-> <<>>]
NoDist == [tag |-> "none"]
\* no second generator
NoClone == [tag |-> "none"]

InitFromSeed ==
    \E seed \in Seeds32 :
        /\ rng = from_seed(seed)
        /\ last = [op |-> "from_seed", seed |-> seed]

InitSeedFromU64 ==
    \E seed \in Seeds64 :
        /\ rng = seed_from_u64(seed)
        /\ last = [op |-> "seed_from_u64", seed |-> seed]

Init ==
    /\ InitFromSeed \/ InitSeedFromU64
    /\ calls = 0
    /\ dist = NoDist
    /\ samp = Idle
    /\ other = NoClone
    /\ jumps = 0

\* rng.next_u64()
NextU64 ==
    /\ calls + 1 <= MaxCalls
    /\ \E d \in {next_u64(rng.state)} :
        /\ rng' = [state |-> d.state]
        /\ last' = [op |-> "next_u64", pre |-> rng.state, result |-> d.result]
    /\ calls' = calls + 1
    /\ UNCHANGED <<dist, samp, other, jumps>>

\* rng.fill_bytes(dest) on a buffer of len bytes
FillBytes ==
    \E len \in 0..MaxLen :
        /\ calls + chunks_of(len) <= MaxCalls
        /\ \E f \in {fill_bytes(rng.state, len)} :
            /\ rng' = [state |-> f.state]
            /\ last' = [op |-> "fill_bytes", pre |-> rng.state, len |-> len,
                        bytes |-> f.bytes, draws |-> f.draws]
            /\ calls' = calls + f.draws
        /\ UNCHANGED <<dist, samp, other, jumps>>

\* random::<T>(rng) for an integer type
RandomInt ==
    \E ty \in IntTypes :
        /\ calls + 1 <= MaxTypedCalls
        /\ \E r \in {random_int(rng.state, ty)} :
            /\ rng' = [state |-> r.state]
            /\ last' = [op |-> "random_int", ty |-> ty, pre |-> rng.state,
                        value |-> r.value, draws |-> r.draws]
            /\ calls' = calls + r.draws
        /\ UNCHANGED <<dist, samp, other, jumps>>

\* fill_random::<T>(rng, data) for an integer type and a slice of n elements
FillRandomInt ==
    \E ty \in IntTypes, n \in 0..MaxElems :
        /\ calls + chunks_of(n * size_of(ty)) <= MaxTypedCalls
        /\ \E r \in {fill_random_int(rng.state, ty, n)} :
            /\ rng' = [state |-> r.state]
            /\ last' = [op |-> "fill_random", ty |-> ty, n |-> n, pre |-> rng.state,
                        elems |-> r.elems, draws |-> r.draws]
            /\ calls' = calls + r.draws
        /\ UNCHANGED <<dist, samp, other, jumps>>

\* random::<f32>(rng) and random::<f64>(rng)
RandomFloat ==
    \E ty \in FloatTypes :
        /\ calls + 1 <= MaxTypedCalls
        /\ \E r \in {random_float(rng.state, ty)} :
            /\ rng' = [state |-> r.state]
            /\ last' = [op |-> "random_float", ty |-> ty, pre |-> rng.state,
                        raw |-> r.raw, value |-> r.value, draws |-> r.draws]
            /\ calls' = calls + r.draws
        /\ UNCHANGED <<dist, samp, other, jumps>>

\* random::<u128>(rng) and random::<i128>(rng)
RandomLarge ==
    \E ty \in LargeTypes :
        /\ calls + 2 <= MaxTypedCalls
        /\ \E r \in {random_large(rng.state, ty)} :
            /\ rng' = [state |-> r.state]
            /\ last' = [op |-> "random_large", ty |-> ty, pre |-> rng.state,
                        value |-> r.value, draws |-> r.draws]
            /\ calls' = calls + r.draws
        /\ UNCHANGED <<dist, samp, other, jumps>>

\* random::<bool>(rng)
RandomBool ==
    /\ calls + 1 <= MaxTypedCalls
    /\ \E r \in {random_bool(rng.state)} :
        /\ rng' = [state |-> r.state]
        /\ last' = [op |-> "random_bool", pre |-> rng.state,
                    value |-> r.value, draws |-> r.draws]
        /\ calls' = calls + r.draws
    /\ UNCHANGED <<dist, samp, other, jumps>>

\* random::<(A, B, ...)>(rng)
RandomTuple ==
    \E tys \in TupleShapes :
        /\ calls + sum_draws(tys) <= MaxTypedCalls
        /\ \E r \in {random_tuple(rng.state, tys)} :
            /\ rng' = [state |-> r.state]
            /\ last' = [op |-> "random_tuple", tys |-> tys, pre |-> rng.state,
                        value |-> r.value, draws |-> r.draws]
            /\ calls' = calls + r.draws
        /\ UNCHANGED <<dist, samp, other, jumps>>

\* random::<[T; N]>(rng)
RandomArray ==
    \E ty \in ElemTypes, n \in 0..MaxElems :
        /\ calls + n * draws_of(ty) <= MaxTypedCalls
        /\ \E r \in {random_array(rng.state, ty, n)} :
            /\ rng' = [state |-> r.state]
            /\ last' = [op |-> "random_array", tys |-> [i \in 1..n |-> ty],
                        pre |-> rng.state, value |-> r.value, draws |-> r.draws]
            /\ calls' = calls + r.draws
        /\ UNCHANGED <<dist, samp, other, jumps>>

\* a copy of the generator that keeps only state[0]
clone_first_word(r) == [state |-> <<r.state[1], Zero64, Zero64, Zero64>>]

\* <Rng as Clone>::clone, derived: a copy of the four state words
clone(r) == [state |-> <<r.state[1], r.state[2], r.state[3], r.state[4]>>]

\* let mut other = rng.clone(): base and at remember the state cloned and
\* the number of draws the original had made, draws counts the clone's own
Clone ==
    /\ other = NoClone
    /\ other' = [tag |-> "clone", rng |-> clone(rng), base |-> rng.state,
                 at |-> calls, draws |-> 0]
    /\ last' = [op |-> "clone"]
    /\ UNCHANGED <<rng, calls, dist, samp, jumps>>

\* other.next_u64()
OtherNextU64 ==
    /\ other # NoClone
    /\ other.draws + 1 <= MaxCloneCalls
    /\ \E d \in {next_u64(other.rng.state)} :
        /\ other' = [other EXCEPT !.rng = [state |-> d.state], !.draws = @ + 1]
        /\ last' = [op |-> "other_next_u64", pre |-> other.rng.state,
                    result |-> d.result]
    /\ UNCHANGED <<rng, calls, dist, samp, jumps>>

\* the generator and its byte filler
Next ==
    \/ NextU64
    \/ FillBytes

Spec == Init /\ [][Next]_vars

\* the generator and the typed sampling layer
NextRandom ==
    \/ NextU64
    \/ RandomInt
    \/ FillRandomInt
    \/ RandomFloat
    \/ RandomLarge
    \/ RandomBool

SpecRandom == Init /\ [][NextRandom]_vars

\* the generator and random for tuples and arrays
NextCompound ==
    \/ NextU64
    \/ RandomTuple
    \/ RandomArray

SpecCompound == Init /\ [][NextCompound]_vars

\* the generator and a clone of it
NextClone ==
    \/ NextU64
    \/ Clone
    \/ OtherNextU64

SpecClone == Init /\ [][NextClone]_vars


(***************************************************************************)
(* UniformInt (integer.rs).  The sampler works on raw words and on their   *)
(* double-width products; every word value has to be enumerated to count   *)
(* how often a value is returned, so here the word (u64 in the code) is    *)
(* WordBits bits wide, the integer types are WordBits - 1 bits wide (the   *)
(* types narrower than the word: i8..i32, u8..u32) and WordBits bits wide  *)
(* (i64, u64, isize, usize), and a raw draw is any word.                   *)
(***************************************************************************)
\* the width of the raw word
WordBits == 3

\* at most MaxDraws raw draws are followed within one sample call
MaxDraws == 3

RECURSIVE Exp2(_)
Exp2(n) == IF n = 0 THEN 1 ELSE 2 * Exp2(n - 1)

\* the values of a raw draw
Words == 0..(Exp2(WordBits) - 1)

\* the integer types: their width and signedness
IntKinds == [bits : {WordBits - 1, WordBits}, signed : BOOLEAN]

\* T::MIN and T::MAX
MIN(ty) == IF ty.signed THEN 0 - Exp2(ty.bits - 1) ELSE 0
MAX(ty) == IF ty.signed THEN Exp2(ty.bits - 1) - 1 ELSE Exp2(ty.bits) - 1

\* the values of type ty
ValuesOf(ty) == MIN(ty)..MAX(ty)

\* core::ops::Bound over the values of ty
BoundsOf(ty) ==
    [kind : {"Included", "Excluded"}, val : ValuesOf(ty)]
    \cup {[kind |-> "Unbounded", val |-> 0]}

None == [some |-> FALSE]
Some(v) == [some |-> TRUE, val |-> v]

\* checked_add with wrap-around in place of the overflow check
wrapping_checked_add(ty, v, n) ==
    IF v + n > MAX(ty) THEN Some(v + n - Exp2(ty.bits)) ELSE Some(v + n)

\* T::checked_add and T::checked_sub
checked_add(ty, v, n) == IF v + n > MAX(ty) THEN None ELSE Some(v + n)
checked_sub(ty, v, n) == IF v - n < MIN(ty) THEN None ELSE Some(v - n)

\* T::abs_diff: the distance, in T's unsigned counterpart
abs_diff(a, b) == IF a < b THEN b - a ELSE a - b

\* checked_add(1) on T itself in place of its unsigned counterpart
signed_checked_add(ty, v, n) ==
    IF v + n > MAX(ty) THEN None ELSE Some(v + n)

\* checked_add(1) on T's unsigned counterpart
unsigned_checked_add(ty, v, n) ==
    IF v + n > Exp2(ty.bits) - 1 THEN None ELSE Some(v + n)

\* NonZero::new
NonZeroNew(v) == IF v = 0 THEN None ELSE Some(v)

Panic(msg) == [tag |-> "panic", msg |-> msg]

\* build_uniform (integer.rs 82-116) for the type ty and the range with the
\* bounds lower and upper: a panic, or Ok with the optional descriptor
build_uniform(ty, lower, upper) ==
    LET lo == CASE lower.kind = "Included" -> Some(lower.val)
                [] lower.kind = "Excluded" -> checked_add(ty, lower.val, 1)
                [] lower.kind = "Unbounded" -> Some(MIN(ty))
    IN  IF ~lo.some THEN Panic("empty range")
        ELSE
        LET hi == CASE upper.kind = "Included" -> Some(upper.val)
                    [] upper.kind = "Excluded" -> checked_sub(ty, upper.val, 1)
                    [] upper.kind = "Unbounded" -> Some(MAX(ty))
        IN  IF ~hi.some THEN Panic("empty range")
            ELSE IF lo.val >= hi.val THEN Panic("empty range")
            ELSE IF lo.val = MIN(ty) /\ hi.val = MAX(ty)
                 THEN [tag |-> "ok", uniform |-> None]
            ELSE LET sum == unsigned_checked_add(ty, abs_diff(lo.val, hi.val), 1)
                     range == IF sum.some THEN NonZeroNew(sum.val) ELSE None
                 IN  IF ~range.some THEN Panic("unwrap on None")
                     ELSE [tag |-> "ok",
                           uniform |-> Some([lower |-> lo.val, range |-> range.val])]

\* wide_mul with the two halves of the product exchanged
wide_mul_swapped(lhs, rhs) ==
    LET mul == lhs * rhs
    IN  <<mul % Exp2(WordBits), mul \div Exp2(WordBits)>>

\* wide_mul (integer.rs 161-166): the high and the low word of the product
wide_mul(lhs, rhs) ==
    LET mul == lhs * rhs
    IN  <<mul \div Exp2(WordBits), mul % Exp2(WordBits)>>

\* range.wrapping_neg() on a word
wrapping_neg(v) == (Exp2(WordBits) - v) % Exp2(WordBits)

\* sample_u64_in_range, the first draw x (integer.rs 170-172): whether its hi
\* is returned at once, or the rejection loop is entered
first_draw(x, range) ==
    LET m == wide_mul(x, range)
    IN  [hi |-> m[1], accepted |-> ~(m[2] < range)]

\* the loop with the threshold reduced modulo range
redraw_reduced(x, range) ==
    LET threshold == wrapping_neg(range) % range
        m == wide_mul(x, range)
    IN  [hi |-> m[1], accepted |-> m[2] >= threshold]

\* the loop with a threshold no low word reaches
redraw_never(x, range) ==
    LET threshold == Exp2(WordBits)
        m == wide_mul(x, range)
    IN  [hi |-> m[1], accepted |-> m[2] >= threshold]

\* sample_u64_in_range, a draw x inside the loop (integer.rs 173-180): whether
\* the loop breaks with its hi
redraw(x, range) ==
    LET threshold == wrapping_neg(range)
        m == wide_mul(x, range)
    IN  [hi |-> m[1], accepted |-> m[2] >= threshold]

\* `hi as $unsigned`: the low bits of the word that fit T's unsigned counterpart
as_unsigned(ty, v) == v % Exp2(ty.bits)

\* sample_uniform (integer.rs 131-134, 146-149) once sample_u64_in_range
\* returned hi: lower.checked_add_unsigned(rand).unwrap() for a signed type,
\* lower + rand for an unsigned one (an overflow panics or wraps, as built)
sample_uniform(ty, uniform, hi) ==
    LET rand == as_unsigned(ty, hi)
        sum  == uniform.lower + rand
    IN  IF sum > MAX(ty)
        THEN [rand |-> rand, overflow |-> TRUE, value |-> sum - Exp2(ty.bits)]
        ELSE [rand |-> rand, overflow |-> FALSE, value |-> sum]

\* random with the low bits of the draw in place of the top bits
random_of_word_low(ty, x) ==
    LET v == as_unsigned(ty, x)
    IN  IF ty.signed /\ v > MAX(ty) THEN v - Exp2(ty.bits) ELSE v

\* <T as Random>::random (random.rs 56-59) on the raw draw x: the top bits
\* of the word, reinterpreted as T
random_of_word(ty, x) ==
    LET v == as_unsigned(ty, x \div Exp2(WordBits - ty.bits))
    IN  IF ty.signed /\ v > MAX(ty) THEN v - Exp2(ty.bits) ELSE v

\* <UniformInt as Default>::default (integer.rs 40-45): no descriptor
default_uniform == [tag |-> "ok", uniform |-> None]

Unbounded == [kind |-> "Unbounded", val |-> 0]

\* UniformInt::new(range) for every type and every pair of bounds, and
\* UniformInt::default() for every type (recorded with the bounds of `..`)
InitUniform ==
    /\ rng = AnyRng
    /\ calls = 0
    /\ last = [op |-> "none"]
    /\ \E ty \in IntKinds :
        \/ \E lower \in BoundsOf(ty), upper \in BoundsOf(ty) :
               dist = [ty |-> ty, ctor |-> "new", lower |-> lower, upper |-> upper,
                       new |-> build_uniform(ty, lower, upper)]
        \/ dist = [ty |-> ty, ctor |-> "default", lower |-> Unbounded,
                   upper |-> Unbounded, new |-> default_uniform]
    /\ samp = Idle
    /\ other = NoClone
    /\ jumps = 0

\* the distribution was built, with a descriptor
HasUniform == dist.new.tag = "ok" /\ dist.new.uniform.some

\* UniformInt::sample on the full range: T::random(rng)
SampleFull ==
    /\ dist.new.tag = "ok" /\ ~dist.new.uniform.some
    /\ samp.pc \in {"idle", "done"}
    /\ \E x \in Words :
           samp' = [pc |-> "done", path |-> "random", draws |-> 1, raw |-> x,
                    value |-> random_of_word(dist.ty, x)]
    /\ UNCHANGED <<rng, calls, last, dist, other, jumps>>

\* UniformInt::sample with a descriptor, up to the first draw's test
SampleFirst ==
    /\ HasUniform
    /\ samp.pc \in {"idle", "done"}
    /\ \E x \in Words :
           LET d == first_draw(x, dist.new.uniform.val.range) IN
           IF d.accepted
           THEN samp' = [pc |-> "done", path |-> "uniform", draws |-> 1, raw |-> x,
                         hi |-> d.hi,
                         out |-> sample_uniform(dist.ty, dist.new.uniform.val, d.hi)]
           ELSE samp' = [pc |-> "loop", draws |-> 1, raw |-> x]
    /\ UNCHANGED <<rng, calls, last, dist, other, jumps>>

\* one iteration of the rejection loop on the raw draw x, which is the
\* count-th draw of the call
LoopIteration(x, count) ==
    /\ HasUniform
    /\ samp.pc = "loop"
    /\ LET d == redraw(x, dist.new.uniform.val.range) IN
       IF d.accepted
       THEN samp' = [pc |-> "done", path |-> "uniform", draws |-> count, raw |-> x,
                     hi |-> d.hi,
                     out |-> sample_uniform(dist.ty, dist.new.uniform.val, d.hi)]
       ELSE samp' = [pc |-> "loop", draws |-> count, raw |-> x]
    /\ UNCHANGED <<rng, calls, last, dist, other, jumps>>

\* one iteration of the rejection loop
SampleRedraw ==
    /\ samp.pc = "loop"
    /\ samp.draws < MaxDraws
    /\ \E x \in Words : LoopIteration(x, samp.draws + 1)

NextUniform ==
    \/ SampleFull
    \/ SampleFirst
    \/ SampleRedraw

SpecUniform == InitUniform /\ [][NextUniform]_vars

(***************************************************************************)
(* UniformFloat::new (float.rs 22-37), on a reduced float format: NaN, the *)
(* two infinities, -0.0 and the finite values -FloatMax..FloatMax, all of  *)
(* them representable, so that a difference is exact unless it exceeds     *)
(* FloatMax in magnitude, when it rounds to an infinity.                   *)
(***************************************************************************)
\* the largest finite value of the format, standing for T::MAX
FloatMax == 3

NaN == [cls |-> "nan"]
Infinity(neg) == [cls |-> "inf", neg |-> neg]
\* the finite value v; neg tells -0.0 from 0.0
Finite(v, neg) == [cls |-> "fin", val |-> v, neg |-> neg]

\* the values of the format
Floats ==
    {NaN, Infinity(FALSE), Infinity(TRUE), Finite(0, TRUE)}
    \cup { Finite(v, v < 0) : v \in (0 - FloatMax)..FloatMax }

\* f32::is_finite / f64::is_finite
is_finite(x) == x.cls = "fin"

\* the place of a value that is not NaN on the extended real line
Key(x) == IF x.cls = "inf" THEN (IF x.neg THEN 0 - (2 * FloatMax + 1) ELSE 2 * FloatMax + 1)
          ELSE x.val

\* a > b of PartialOrd: false when either side is NaN
gt(a, b) == a.cls # "nan" /\ b.cls # "nan" /\ Key(a) > Key(b)

\* a - b of Sub, rounded to the format
sub(a, b) ==
    IF a.cls = "nan" \/ b.cls = "nan" THEN NaN
    ELSE IF a.cls = "inf" /\ b.cls = "inf" /\ a.neg = b.neg THEN NaN
    ELSE IF a.cls = "inf" THEN a
    ELSE IF b.cls = "inf" THEN Infinity(~b.neg)
    ELSE LET d == a.val - b.val
         IN  IF d > FloatMax THEN Infinity(FALSE)
             ELSE IF d < 0 - FloatMax THEN Infinity(TRUE)
             ELSE IF d = 0 THEN Finite(0, a.neg /\ ~b.neg)
             ELSE Finite(d, d < 0)

\* UniformFloat::new accepting high = low
uniform_float_new_ge(low, high) ==
    IF is_finite(low) /\ is_finite(high) /\ ~gt(low, high)
    THEN [tag |-> "ok", uniform |-> [low |-> low, scale |-> sub(high, low)]]
    ELSE Panic("invalid interval")

\* UniformFloat::new(low, high): the assert, then the descriptor
uniform_float_new(low, high) ==
    IF is_finite(low) /\ is_finite(high) /\ gt(high, low)
    THEN [tag |-> "ok", uniform |-> [low |-> low, scale |-> sub(high, low)]]
    ELSE Panic("invalid interval")

InitFloat ==
    /\ rng = AnyRng
    /\ calls = 0
    /\ last = [op |-> "none"]
    /\ dist = NoDist
    /\ samp = Idle
    /\ other = NoClone
    /\ jumps = 0

\* UniformFloat::new(low, high) for every pair of values
UniformFloatNew ==
    /\ \E low \in Floats, high \in Floats :
           dist' = [tag |-> "float", low |-> low, high |-> high,
                    new |-> uniform_float_new(low, high)]
    /\ UNCHANGED <<rng, calls, last, samp, other, jumps>>

NextFloat == UniformFloatNew

SpecFloat == InitFloat /\ [][NextFloat]_vars

(***************************************************************************)
(* random::<bool> over every raw draw, at the reduced word width BoolBits  *)
(* (random.rs 44-49).                                                      *)
(***************************************************************************)
\* the width of a raw draw in SpecBool, standing for 64
BoolBits == 7

\* the values of a raw draw
BoolWords == 0..(Exp2(BoolBits) - 1)

\* the word x read as a signed integer: what i64::random returns on the draw x
as_signed(x) == IF x >= Exp2(BoolBits - 1) THEN x - Exp2(BoolBits) ELSE x

\* <bool as Random>::random on the raw draw x
bool_of_word(x) == as_signed(x) > 0

InitBool ==
    /\ rng = AnyRng
    /\ calls = 0
    /\ last = [op |-> "none"]
    /\ dist = NoDist
    /\ samp = Idle
    /\ other = NoClone
    /\ jumps = 0

\* random::<bool>(rng), the draw being any word
RandomBoolWord ==
    /\ \E x \in BoolWords :
           samp' = [pc |-> "done", path |-> "bool", draws |-> 1, raw |-> x,
                    value |-> bool_of_word(x)]
    /\ UNCHANGED <<rng, calls, last, dist, other, jumps>>

NextBool == RandomBoolWord

SpecBool == InitBool /\ [][NextBool]_vars

(***************************************************************************)
(* Properties of the generator (rng.rs).                                   *)
(***************************************************************************)
\* c = a + b modulo 2^64, computed on 16-bit limbs
Limb(w, k) == w[2 * k - 1] + 256 * w[2 * k]
IsSum(a, b, c) ==
    LET t1 == Limb(a, 1) + Limb(b, 1)
        t2 == Limb(a, 2) + Limb(b, 2) + (t1 \div 65536)
        t3 == Limb(a, 3) + Limb(b, 3) + (t2 \div 65536)
        t4 == Limb(a, 4) + Limb(b, 4) + (t3 \div 65536)
    IN  /\ Limb(c, 1) = t1 % 65536
        /\ Limb(c, 2) = t2 % 65536
        /\ Limb(c, 3) = t3 % 65536
        /\ Limb(c, 4) = t4 % 65536

\* c is a rotated left by k bits
IsRotl(a, k, c) == \A i \in 0..63 : Bit(c, (i + k) % 64) = Bit(a, i)

\* the sum modulo 2 of bits
Xor3(x, y, z) == (x + y + z) % 2

SeedWords1234 == <<Small64(1), Small64(2), Small64(3), Small64(4)>>

\* C1: next_u64 returns rotate_left(s0 + s3, 23) + s0 of the state before the
\* advance, and leaves the state that the sequence t = s1 << 17; s2 ^= s0;
\* s3 ^= s1; s1 ^= s2; s0 ^= s3; s2 ^= t; s3 = rotl(s3, 45) yields, i.e. bit
\* by bit: s0' = s0^s3^s1, s1' = s1^s2^s0, s2' = s2^s0^(s1 << 17),
\* s3' = rotl(s3^s1, 45).
C1_NextU64 ==
    last.op = "next_u64" =>
        LET s0 == last.pre[1]
            s1 == last.pre[2]
            s2 == last.pre[3]
            s3 == last.pre[4]
            n  == rng.state
            sum == wrapping_add(s0, s3)
            rot == rotate_left(sum, 23)
        IN  /\ IsSum(s0, s3, sum)
            /\ IsRotl(sum, 23, rot)
            /\ IsSum(rot, s0, last.result)
            /\ \A i \in 0..63 :
                /\ Bit(n[1], i) = Xor3(Bit(s0, i), Bit(s3, i), Bit(s1, i))
                /\ Bit(n[2], i) = Xor3(Bit(s1, i), Bit(s2, i), Bit(s0, i))
                /\ Bit(n[3], i) = Xor3(Bit(s2, i), Bit(s0, i),
                                       IF i >= 17 THEN Bit(s1, i - 17) ELSE 0)
                /\ Bit(n[4], (i + 45) % 64) = Xor3(Bit(s3, i), Bit(s1, i), 0)

\* the first draw of the generator seeded with the words 1, 2, 3, 4 is 41943041
C1_Witness ==
    /\ last.op = "next_u64"
    /\ last.pre = SeedWords1234
    /\ last.result = U64(0, 0, 0, 0, \h02, \h80, \h00, \h01)

\* C7: fill_bytes on a buffer of L bytes makes exactly ceil(L / 8) next_u64
\* calls, and byte k of the buffer is byte (k mod 8) of the little-endian
\* encoding of draw (k div 8).
C7_FillBytes ==
    last.op = "fill_bytes" =>
        LET n == (last.len + 7) \div 8
            d == draw_n(last.pre, n)
        IN  /\ last.draws = n
            /\ rng.state = d.state
            /\ Len(last.bytes) = last.len
            /\ \A k \in 1..last.len :
                   last.bytes[k] = d.results[((k - 1) \div 8) + 1][((k - 1) % 8) + 1]

\* a buffer with two complete chunks and a partial one
C7_Witness == last.op = "fill_bytes" /\ last.len = 17 /\ last.draws = 3

AllZeroState == <<Zero64, Zero64, Zero64, Zero64>>

\* C9: a generator built by from_seed or seed_from_u64 never has the all-zero state.
C9_SeededNonZero ==
    last.op \in {"from_seed", "seed_from_u64"} => rng.state # AllZeroState

\* the generator built from 32 zero bytes
C9_Witness ==
    /\ last.op = "from_seed"
    /\ \A k \in 1..32 : last.seed[k] = 0
    /\ rng.state # AllZeroState

\* the first four outputs of SplitMix64 started at 0 (rng.rs 238-241)
SplitMixZero ==
    << U64(\he2, \h20, \ha8, \h39, \h7b, \h1d, \hcd, \haf),
       U64(\h6e, \h78, \h9e, \h6a, \ha1, \hb9, \h65, \hf4),
       U64(\h06, \hc4, \h5d, \h18, \h80, \h09, \h45, \h4f),
       U64(\hf8, \h8b, \hb8, \ha8, \h72, \h4c, \h81, \hec) >>

\* C10: from_seed on a seed with a non-zero byte gives the four little-endian
\* words of the seed, in order; on 32 zero bytes it gives seed_from_u64(0).
C10_FromSeed ==
    last.op = "from_seed" =>
        IF \E k \in 1..32 : last.seed[k] # 0
        THEN \A i \in 1..4 : \A j \in 1..8 :
                 rng.state[i][j] = last.seed[8 * (i - 1) + j]
        ELSE /\ rng = seed_from_u64(Zero64)
             /\ rng.state = SplitMixZero

\* the seed of the reference test: the words 1, 2, 3, 4
C10_Witness ==
    /\ last.op = "from_seed"
    /\ last.seed = SeedOf(Small64(1), Small64(2), Small64(3), Small64(4))
    /\ rng.state = SeedWords1234

(***************************************************************************)
(* Properties of the typed sampling layer (random.rs).                     *)
(***************************************************************************)
\* C4: random::<f32> and random::<f64> return a value in [0, 1).
C4_FloatBelowOne ==
    last.op = "random_float" => FloatLtOne(last.value)

\* the f64 half alone
C4_F64BelowOne ==
    (last.op = "random_float" /\ last.ty = "f64") => FloatLtOne(last.value)

\* the raw draw x with all but its top m bits cleared
ClearLow(x, m) == shl(shr(x, 64 - m), 64 - m)

\* the mantissa width: 23 bits for f32, 52 bits for f64
mantissa_width(ty) == IF ty = "f32" THEN 23 ELSE 52

\* C5: the float depends on the top mantissa-width bits of the draw only: the
\* draw with its other bits cleared yields the same float.
C5_LowBitsIgnored ==
    last.op = "random_float" =>
        float_from_u64(ClearLow(last.raw, mantissa_width(last.ty)), last.ty) = last.value

\* the f64 half alone
C5_F64LowBitsIgnored ==
    (last.op = "random_float" /\ last.ty = "f64") =>
        float_from_u64(ClearLow(last.raw, 52), "f64") = last.value

\* C8 as claimed: fill_random on a slice of any fixed-width integer type gives
\* the elements and the final state of one random::<T> per element.
C8_FillMatchesRandom ==
    last.op = "fill_random" =>
        LET r == fill_random_default(last.pre, last.ty, last.n)
        IN  /\ \A i \in 1..last.n : last.elems[i] = r.elems[i]
            /\ rng.state = r.state

\* C8 amended: it does so for the 64-bit-wide element types.
C8_FillMatchesRandom64 ==
    (last.op = "fill_random" /\ size_of(last.ty) = 8) =>
        LET r == fill_random_default(last.pre, last.ty, last.n)
        IN  /\ \A i \in 1..last.n : last.elems[i] = r.elems[i]
            /\ rng.state = r.state
            /\ last.draws = last.n

\* a slice of two i64 filled
C8_Witness ==
    /\ last.op = "fill_random"
    /\ last.ty = "i64"
    /\ last.n = 2
    /\ last.draws = 2


(***************************************************************************)
(* Properties of UniformInt (integer.rs).                                  *)
(***************************************************************************)
\* the inclusive bounds a range stands for, as unbounded integers
NormLower(ty, b) ==
    CASE b.kind = "Included" -> b.val
      [] b.kind = "Excluded" -> b.val + 1
      [] b.kind = "Unbounded" -> MIN(ty)
NormUpper(ty, b) ==
    CASE b.kind = "Included" -> b.val
      [] b.kind = "Excluded" -> b.val - 1
      [] b.kind = "Unbounded" -> MAX(ty)

\* the number of words for which the first draw returns h at once, the
\* number for which it enters the loop, and the number for which an
\* iteration of the loop returns h / returns at all
FirstCount(range, h) ==
    Cardinality({x \in Words : first_draw(x, range).accepted /\ first_draw(x, range).hi = h})
FirstRejected(range) ==
    Cardinality({x \in Words : ~first_draw(x, range).accepted})
LoopCount(range, h) ==
    Cardinality({x \in Words : redraw(x, range).accepted /\ redraw(x, range).hi = h})
LoopAccepted(range) ==
    Cardinality({x \in Words : redraw(x, range).accepted})

\* the probability that sample_u64_in_range returns h, times
\* 2^WordBits * LoopAccepted(range): h is returned by the first draw, or the
\* first draw is rejected and the first accepted redraw returns h
Weight(range, h) ==
    FirstCount(range, h) * LoopAccepted(range) + FirstRejected(range) * LoopCount(range, h)

\* C2: with every raw draw uniform over the words, sample returns each of
\* the `range` values of a validated, not full, range with the same probability.
C2_ExactlyUniform ==
    (HasUniform /\ samp.pc = "done") =>
        LET range == dist.new.uniform.val.range
        IN  /\ LoopAccepted(range) > 0
            /\ \A h1, h2 \in 0..(range - 1) : Weight(range, h1) = Weight(range, h2)

\* C3: every value sampled through the descriptor lies within the normalized
\* inclusive bounds; the offset hi is below range, survives the cast to the
\* unsigned type, and adding it to lower does not overflow.
C3_SampleInRange ==
    (HasUniform /\ samp.pc = "done") =>
        /\ samp.path = "uniform"
        /\ samp.hi < dist.new.uniform.val.range
        /\ samp.out.rand = samp.hi
        /\ ~samp.out.overflow
        /\ NormLower(dist.ty, dist.lower) <= samp.out.value
        /\ samp.out.value <= NormUpper(dist.ty, dist.upper)

\* a signed word-sized type sampled at its upper bound after a redraw
C3_Witness ==
    /\ HasUniform
    /\ dist.ty = [bits |-> WordBits, signed |-> TRUE]
    /\ samp.pc = "done"
    /\ samp.draws = 2
    /\ samp.out.value = NormUpper(dist.ty, dist.upper)
    /\ samp.out.value < 0

\* C6: UniformInt::new panics with "empty range" on every range whose
\* normalized inclusive bounds are empty or inverted, the bounds that cannot
\* be normalized within T included.
C6_EmptyRangePanics ==
    NormLower(dist.ty, dist.lower) > NormUpper(dist.ty, dist.upper) =>
        dist.new = Panic("empty range")

\* an excluded lower bound of T::MAX, whose normalization overflows T
C6_Witness ==
    /\ dist.lower = [kind |-> "Excluded", val |-> MAX(dist.ty)]
    /\ dist.upper.kind = "Unbounded"
    /\ dist.new = Panic("empty range")

(***************************************************************************)
(* Properties of seeding (rng.rs 51-60, 144-158).                          *)
(***************************************************************************)
\* a * k modulo 2^64 for a u64 a and a byte k, digit by digit with carry
MulRow(a, k) ==
    LET r1 == a[1] * k
        r2 == a[2] * k + (r1 \div 256)
        r3 == a[3] * k + (r2 \div 256)
        r4 == a[4] * k + (r3 \div 256)
        r5 == a[5] * k + (r4 \div 256)
        r6 == a[6] * k + (r5 \div 256)
        r7 == a[7] * k + (r6 \div 256)
        r8 == a[8] * k + (r7 \div 256)
    IN  <<r1 % 256, r2 % 256, r3 % 256, r4 % 256,
          r5 % 256, r6 % 256, r7 % 256, r8 % 256>>

\* w * 2^(8 * n) modulo 2^64
ShiftBytes(w, n) ==
    <<Digit(w, 1 - n), Digit(w, 2 - n), Digit(w, 3 - n), Digit(w, 4 - n),
      Digit(w, 5 - n), Digit(w, 6 - n), Digit(w, 7 - n), Digit(w, 8 - n)>>

\* a + b modulo 2^64 on 16-bit limbs
Sum16(a, b) ==
    LET t1 == Limb(a, 1) + Limb(b, 1)
        t2 == Limb(a, 2) + Limb(b, 2) + (t1 \div 65536)
        t3 == Limb(a, 3) + Limb(b, 3) + (t2 \div 65536)
        t4 == Limb(a, 4) + Limb(b, 4) + (t3 \div 65536)
    IN  <<t1 % 256, (t1 \div 256) % 256, t2 % 256, (t2 \div 256) % 256,
          t3 % 256, (t3 \div 256) % 256, t4 % 256, (t4 \div 256) % 256>>

\* the sum of the rows a * b[i] * 2^(8 (i - 1)) for i <= j, modulo 2^64
RECURSIVE RowSum(_, _, _)
RowSum(a, b, j) ==
    IF j = 0 THEN Zero64
    ELSE Sum16(RowSum(a, b, j - 1), ShiftBytes(MulRow(a, b[j]), j - 1))

\* c = a * b modulo 2^64
IsProduct(a, b, c) == c = RowSum(a, b, 8)

\* c = a ^ (a >> k), bit by bit
IsXorShift(a, k, c) ==
    \A i \in 0..63 :
        Bit(c, i) = (Bit(a, i) + (IF i + k <= 63 THEN Bit(a, i + k) ELSE 0)) % 2

\* one step of the mixer from the scalar state s: the scalar state becomes st
\* and the output is out
IsMixStep(s, st, out) ==
    LET x1 == xor(st, shr(st, 30))
        z1 == wrapping_mul(x1, MixMul1)
        x2 == xor(z1, shr(z1, 27))
        z2 == wrapping_mul(x2, MixMul2)
    IN  /\ IsSum(s, U64(\h9e, \h37, \h79, \hb9, \h7f, \h4a, \h7c, \h15), st)
        /\ IsXorShift(st, 30, x1)
        /\ IsProduct(x1, U64(\hbf, \h58, \h47, \h6d, \h1c, \he4, \he5, \hb9), z1)
        /\ IsXorShift(z1, 27, x2)
        /\ IsProduct(x2, U64(\h94, \hd0, \h49, \hbb, \h13, \h31, \h11, \heb), z2)
        /\ IsXorShift(z2, 31, out)

\* C11: seed_from_u64(seed) depends on seed alone, and its four state words
\* are, in order, the first four outputs of the SplitMix64 mixer started at
\* the scalar state seed: each step adds 0x9e3779b97f4a7c15 to the scalar
\* state and outputs z ^ (z >> 31) after z = (z ^ (z >> 30)) * 0xbf58476d1ce4e5b9
\* and z = (z ^ (z >> 27)) * 0x94d049bb133111eb.
C11_SeedFromU64 ==
    last.op = "seed_from_u64" =>
        LET t1 == wrapping_add(last.seed, GoldenGamma)
            t2 == wrapping_add(t1, GoldenGamma)
            t3 == wrapping_add(t2, GoldenGamma)
            t4 == wrapping_add(t3, GoldenGamma)
        IN  /\ IsMixStep(last.seed, t1, rng.state[1])
            /\ IsMixStep(t1, t2, rng.state[2])
            /\ IsMixStep(t2, t3, rng.state[3])
            /\ IsMixStep(t3, t4, rng.state[4])
            /\ rng = seed_from_u64(last.seed)
            /\ (last.seed = Zero64 => rng.state = SplitMixZero)

\* the generator seeded with 0x0123456789abcdef
C11_Witness ==
    /\ last.op = "seed_from_u64"
    /\ last.seed = U64(\h01, \h23, \h45, \h67, \h89, \hab, \hcd, \hef)
    /\ Len(rng.state) = 4

(***************************************************************************)
(* Properties of cloning (rng.rs 9-12).                                    *)
(***************************************************************************)
\* the draws made on the original and on the clone since the clone was made
DrawsSinceClone == calls - other.at
DrawsOfClone == other.draws

\* the original and the clone each continue the stream of the state that was
\* cloned, by their own number of draws and whatever the other one did
CloneIndependent ==
    LET a == draw_n(other.base, DrawsSinceClone)
        b == draw_n(other.base, DrawsOfClone)
    IN  /\ rng.state = a.state
        /\ other.rng.state = b.state
        /\ (last.op = "next_u64" /\ DrawsSinceClone > 0
                => last.result = a.results[DrawsSinceClone])
        /\ (last.op = "other_next_u64" => last.result = b.results[DrawsOfClone])
        /\ (DrawsSinceClone = DrawsOfClone => rng = other.rng)

\* one of the two generators is exactly one draw ahead of the other
OneAhead ==
    \/ DrawsSinceClone = DrawsOfClone + 1
    \/ DrawsOfClone = DrawsSinceClone + 1

FullRange ==
    \/ dist.ctor = "default"
    \/ /\ NormLower(dist.ty, dist.lower) = MIN(dist.ty)
       /\ NormUpper(dist.ty, dist.upper) = MAX(dist.ty)

\* C13: a range normalized to T::MIN..=T::MAX, and UniformInt::default(),
\* give a distribution without descriptor; a sample from it never enters the
\* multiply/rejection algorithm, takes exactly one raw draw and returns what
\* random::<T> makes of that draw: its top bits, reinterpreted as T.
C13_FullRange ==
    FullRange =>
        /\ dist.new.tag = "ok"
        /\ ~dist.new.uniform.some
        /\ samp.pc # "loop"
        /\ samp.pc = "done" =>
            /\ samp.path = "random"
            /\ samp.draws = 1
            /\ samp.value \in ValuesOf(dist.ty)
            /\ (samp.value - (samp.raw \div Exp2(WordBits - dist.ty.bits)))
                   % Exp2(dist.ty.bits) = 0

\* a negative value sampled from the default distribution of the narrower
\* signed type, from a draw whose low bit is set
C13_Witness ==
    /\ dist.ctor = "default"
    /\ dist.ty = [bits |-> WordBits - 1, signed |-> TRUE]
    /\ samp.pc = "done"
    /\ samp.raw % 2 = 1
    /\ samp.value < 0

\* the full range written with explicit bounds
C13_WitnessBounds ==
    /\ dist.ctor = "new"
    /\ dist.lower = [kind |-> "Included", val |-> MIN(dist.ty)]
    /\ dist.upper = [kind |-> "Included", val |-> MAX(dist.ty)]
    /\ samp.pc = "done"
    /\ samp.path = "random"

(***************************************************************************)
(* Properties of random for integers, bool, tuples and arrays              *)
(* (random.rs 44-95, 114-145).                                             *)
(***************************************************************************)
\* the width in bits of an integer type
BitsOf(ty) == 8 * size_of(ty)

\* the draw that next_u64 returns from the state st
DrawOf(st) == next_u64(st).result

\* C14: random::<T> for an N-bit integer type makes exactly one next_u64 call
\* and returns the top N bits of the draw x, i.e. x >> (64 - N), as T; the
\* low 64 - N bits of x do not influence the result.
C14_RandomIntTopBits ==
    last.op = "random_int" =>
        LET x == DrawOf(last.pre)
            N == BitsOf(last.ty)
        IN  /\ last.draws = 1
            /\ rng.state = next_u64(last.pre).state
            /\ Len(last.value) = size_of(last.ty)
            /\ \A i \in 0..(N - 1) : Bit(last.value, i) = Bit(x, 64 - N + i)
            /\ truncate(shr(ClearLow(x, N), 64 - N), last.ty) = last.value
            /\ truncate(shr(xor(x, shr(Ones64, N)), 64 - N), last.ty) = last.value

\* an i16 with its sign bit set, from a draw whose low 48 bits are not zero
C14_Witness ==
    /\ last.op = "random_int"
    /\ last.ty = "i16"
    /\ Bit(last.value, 15) = 1
    /\ ClearLow(DrawOf(last.pre), 16) # DrawOf(last.pre)

\* C15: random::<u128> and random::<i128> make exactly two consecutive
\* next_u64 calls; the first draw is the low word and the second the high
\* word of the result (hi << 64) | lo, the same 128 bits for either type.
C15_RandomLarge ==
    last.op = "random_large" =>
        LET d == draw_n(last.pre, 2)
        IN  /\ last.draws = 2
            /\ rng.state = d.state
            /\ Len(last.value) = 16
            /\ \A i \in 0..63 :
                /\ Bit(last.value, i) = Bit(d.results[1], i)
                /\ Bit(last.value, 64 + i) = Bit(d.results[2], i)

\* an i128 made of two different draws, the second of which is not zero
C15_Witness ==
    /\ last.op = "random_large"
    /\ last.ty = "i128"
    /\ SubSeq(last.value, 1, 8) # SubSeq(last.value, 9, 16)
    /\ SubSeq(last.value, 9, 16) # Zero64

\* C16: random::<bool> makes exactly one next_u64 call and returns true iff
\* the draw, read as an i64, is strictly positive: false for the draw 0 and
\* for every draw with the top bit set.
C16_RandomBool ==
    last.op = "random_bool" =>
        LET x == DrawOf(last.pre)
        IN  /\ last.draws = 1
            /\ rng.state = next_u64(last.pre).state
            /\ last.value = (Bit(x, 63) = 0 /\ \E i \in 0..62 : Bit(x, i) = 1)
            /\ (x = Zero64 => last.value = FALSE)
            /\ (Bit(x, 63) = 1 => last.value = FALSE)

\* the draw 0, which gives false
C16_Witness ==
    /\ last.op = "random_bool"
    /\ DrawOf(last.pre) = Zero64
    /\ last.value = FALSE

\* a draw with the top bit clear that gives true, and one with the top bit set
C16_WitnessTrue ==
    /\ last.op = "random_bool"
    /\ last.value = TRUE
C16_WitnessNegative ==
    /\ last.op = "random_bool"
    /\ Bit(DrawOf(last.pre), 63) = 1

\* the raw draws that random::<bool> maps to true, and to false
TrueWords == {x \in BoolWords : bool_of_word(x)}
FalseWords == {x \in BoolWords : ~bool_of_word(x)}

\* C17: random::<bool> gives true and false with equal probability: of all
\* the equally likely raw draws, as many are mapped to true as to false.
C17_BoolEqualCounts ==
    (samp.pc = "done" /\ samp.path = "bool") =>
        /\ samp.value = (samp.raw \in TrueWords)
        /\ Cardinality(TrueWords) = Cardinality(FalseWords)

\* the next_u64 calls made for the fields before field i
DrawsBefore(tys, i) == sum_draws(SubSeq(tys, 1, i - 1))

\* C18: random for a tuple or an array generates the elements one at a time
\* in left-to-right / index order: element i is what random::<T_i> returns
\* from the state left by the elements before it, and the final state is the
\* state after the draws of all the elements.
C18_ElementsInOrder ==
    last.op \in {"random_tuple", "random_array"} =>
        /\ Len(last.value) = Len(last.tys)
        /\ \A i \in 1..Len(last.tys) :
               last.value[i] =
                   random_of(draw_n(last.pre, DrawsBefore(last.tys, i)).state,
                             last.tys[i]).value
        /\ last.draws = sum_draws(last.tys)
        /\ rng.state = draw_n(last.pre, last.draws).state

\* a pair whose first field takes two draws and whose second is a float
C18_Witness ==
    /\ last.op = "random_tuple"
    /\ last.tys = <<"u128", "f64">>
    /\ last.draws = 3
    /\ last.value[2] = float_from_u64(draw_n(last.pre, 3).results[3], "f64")

\* an array of two different elements
C18_WitnessArray ==
    /\ last.op = "random_array"
    /\ Len(last.tys) = 2
    /\ last.value[1] # last.value[2]

(***************************************************************************)
(* Properties of UniformFloat (float.rs).                                  *)
(***************************************************************************)
\* low or high is NaN or infinite, or high <= low
InvalidInterval ==
    \/ dist.low.cls \in {"nan", "inf"}
    \/ dist.high.cls \in {"nan", "inf"}
    \/ dist.high.val <= dist.low.val

\* C19: UniformFloat::new(low, high) panics with "invalid interval" whenever
\* low or high is NaN or infinite or high <= low, and otherwise succeeds and
\* stores low and scale = high - low (the difference as the float format
\* rounds it).
C19_UniformFloatNew ==
    dist # NoDist =>
        IF InvalidInterval
        THEN dist.new = Panic("invalid interval")
        ELSE /\ dist.new.tag = "ok"
             /\ dist.new.uniform.low = dist.low
             /\ dist.new.uniform.scale =
                    (IF dist.high.val - dist.low.val > FloatMax
                     THEN Infinity(FALSE)
                     ELSE Finite(dist.high.val - dist.low.val, FALSE))

\* UniformFloat::new(1.0, 1.0)
C19_Witness ==
    /\ dist # NoDist
    /\ dist.low = Finite(1, FALSE)
    /\ dist.high = Finite(1, FALSE)
    /\ dist.new = Panic("invalid interval")

\* UniformFloat::new(NaN, 1.0), and an interval that is accepted
C19_WitnessNaN ==
    /\ dist # NoDist
    /\ dist.low = NaN
    /\ dist.high = Finite(1, FALSE)
    /\ dist.new = Panic("invalid interval")
C19_WitnessAccepted ==
    /\ dist # NoDist
    /\ dist.low = Finite(0, TRUE)
    /\ dist.high = Finite(2, FALSE)
    /\ dist.new.tag = "ok"
    /\ dist.new.uniform.scale = Finite(2, FALSE)

(***************************************************************************)
(* The reference sequence (rng.rs 164-184).                                *)
(***************************************************************************)
\* the ten values asserted in xoshiro256plusplus_reference_implementation:
\* 41943041, 58720359, 3588806011781223, 3591011842654386,
\* 9228616714210784205, 9973669472204895162, 14011001112246962877,
\* 12406186145184390807, 15849039046786891736, 10450023813501588000
Reference10 ==
    << U64(\h00, \h00, \h00, \h00, \h02, \h80, \h00, \h01),
      U64(\h00, \h00, \h00, \h00, \h03, \h80, \h00, \h67),
      U64(\h00, \h0c, \hc0, \h00, \h03, \h80, \h00, \h67),
      U64(\h00, \h0c, \hc2, \h01, \h99, \h44, \h00, \hb2),
      U64(\h80, \h12, \ha2, \h01, \h9a, \hc4, \h33, \hcd),
      U64(\h8a, \h69, \h97, \h8a, \hcd, \hee, \h33, \hba),
      U64(\hc2, \h71, \h13, \h47, \h33, \h15, \h4a, \hbd),
      U64(\hac, \h2b, \ha0, \h91, \h79, \h16, \h9e, \h97),
      U64(\hdb, \hf3, \h19, \h0a, \h8f, \h07, \h3f, \hd8),
      U64(\h91, \h05, \hf1, \h4a, \hb2, \h22, \h92, \h20) >>

\* C20: the generator built by from_seed from the little-endian words
\* 1, 2, 3, 4 returns, on its first ten next_u64 calls, the ten values of the
\* reference sequence: the k-th call made from the state that k - 1 calls
\* leave returns the k-th value.
C20_ReferenceSequence ==
    /\ (last.op = "from_seed"
            /\ last.seed = SeedOf(Small64(1), Small64(2), Small64(3), Small64(4)))
        => draw_n(rng.state, 10).results = Reference10
    /\ \A k \in 1..10 :
        (last.op = "next_u64" /\ calls = k
            /\ last.pre = draw_n(SeedWords1234, k - 1).state)
        => last.result = Reference10[k]

\* the tenth call on that generator
C20_Witness ==
    /\ last.op = "next_u64"
    /\ calls = 10
    /\ last.pre = draw_n(SeedWords1234, 9).state
    /\ last.result = U64(\h91, \h05, \hf1, \h4a, \hb2, \h22, \h92, \h20)

(***************************************************************************)
(* jump and long_jump (rand/rng.rs).                                       *)
(***************************************************************************)
\* at most MaxJumps jump or long_jump calls are made on a generator
MaxJumps == 2
\* a jump is made after at most MaxCallsBeforeJump next_u64 calls
MaxCallsBeforeJump == 1

\* the polynomial of jump
JUMP ==
    << U64(\h18, \h0e, \hc6, \hd3, \h3c, \hfd, \h0a, \hba),
       U64(\hd5, \ha6, \h12, \h66, \hf0, \hc9, \h39, \h2c),
       U64(\ha9, \h58, \h26, \h18, \he0, \h3f, \hc9, \haa),
       U64(\h39, \hab, \hdc, \h45, \h29, \hb1, \h66, \h1c) >>

\* the polynomial of long_jump
LONG_JUMP ==
    << U64(\h76, \he1, \h5d, \h3e, \hfe, \hfd, \hcb, \hbf),
       U64(\hc5, \h00, \h4e, \h44, \h1c, \h52, \h2f, \hb3),
       U64(\h77, \h71, \h00, \h69, \h85, \h4e, \he2, \h41),
       U64(\h39, \h10, \h9b, \hb0, \h2a, \hcb, \he6, \h35) >>

\* the number of iterations of the two nested loops of jump_impl: the four
\* words of the polynomial by the 64 bits of a word
JumpBits == 256

\* state[0] ^= self.state[0]; ...; state[3] ^= self.state[3]
xor_state(acc, st) ==
    <<xor(acc[1], st[1]), xor(acc[2], st[2]), xor(acc[3], st[3]),
      xor(acc[4], st[4])>>

\* the variant that adds the state to the accumulator after next_u64 has
\* advanced it
jump_step_advanced(s, poly, k) ==
    [state |-> IF Bit(poly[(k \div 64) + 1], k % 64) = 1
               THEN xor_state(s.state, next_u64(s.self).state)
               ELSE s.state,
     self |-> next_u64(s.self).state,
     draws |-> s.draws + 1]

\* the variant that calls next_u64 only after a bit that is set
jump_step_skipping(s, poly, k) ==
    IF Bit(poly[(k \div 64) + 1], k % 64) = 1
    THEN [state |-> xor_state(s.state, s.self),
          self |-> next_u64(s.self).state,
          draws |-> s.draws + 1]
    ELSE s

\* iteration k of the loops, on word k \div 64 and bit k % 64 of the
\* polynomial: s.self is the generator's state, s.state the accumulator and
\* s.draws the number of next_u64 calls made
jump_step(s, poly, k) ==
    [state |-> IF Bit(poly[(k \div 64) + 1], k % 64) = 1
               THEN xor_state(s.state, s.self)
               ELSE s.state,
     self |-> next_u64(s.self).state,
     draws |-> s.draws + 1]

\* iterations lo .. hi - 1 of the loops, in order; the range is halved so
\* that each half is finished before the next one starts
RECURSIVE jump_loop(_, _, _, _)
jump_loop(s, poly, lo, hi) ==
    IF hi - lo = 1
    THEN jump_step(s, poly, lo)
    ELSE CHOOSE r \in { jump_loop(m, poly, (lo + hi) \div 2, hi) :
                            m \in { jump_loop(s, poly, lo, (lo + hi) \div 2) } } :
            TRUE

\* the variant whose accumulator starts with every bit set
jump_impl_ones(st, poly) ==
    LET Done(s) == [state |-> s.state, advanced |-> s.self, draws |-> s.draws]
    IN  Done(jump_loop([state |-> <<Ones64, Ones64, Ones64, Ones64>>, self |-> st,
                        draws |-> 0],
                       poly, 0, JumpBits))

\* jump_impl!(self, [j0, j1, j2, j3]): the state the generator is left in,
\* the state its next_u64 calls had brought it to, and their number
jump_impl(st, poly) ==
    LET Done(s) == [state |-> s.state, advanced |-> s.self, draws |-> s.draws]
    IN  Done(jump_loop([state |-> AllZeroState, self |-> st, draws |-> 0],
                       poly, 0, JumpBits))

\* rng.jump()
jump(st) == jump_impl(st, JUMP)

\* rng.long_jump()
long_jump(st) == jump_impl(st, LONG_JUMP)

\* rng.jump()
Jump ==
    /\ jumps + 1 <= MaxJumps
    /\ calls <= MaxCallsBeforeJump
    /\ \E j \in {jump(rng.state)} :
        /\ rng' = [state |-> j.state]
        /\ last' = [op |-> "jump", pre |-> rng.state, advanced |-> j.advanced,
                    draws |-> j.draws]
    /\ jumps' = jumps + 1
    /\ UNCHANGED <<calls, dist, samp, other>>

\* rng.long_jump()
LongJump ==
    /\ jumps + 1 <= MaxJumps
    /\ calls <= MaxCallsBeforeJump
    /\ \E j \in {long_jump(rng.state)} :
        /\ rng' = [state |-> j.state]
        /\ last' = [op |-> "long_jump", pre |-> rng.state,
                    advanced |-> j.advanced, draws |-> j.draws]
    /\ jumps' = jumps + 1
    /\ UNCHANGED <<calls, dist, samp, other>>

\* the generator and its jumps
NextJump ==
    \/ NextU64
    \/ Jump
    \/ LongJump

SpecJump == Init /\ [][NextJump]_vars

(***************************************************************************)
(* C21: the reference sequences of jump and long_jump                      *)
(***************************************************************************)
\* the ten values asserted by xoshiro256plusplus_jump_reference_implementation,
\* the first being 17043750140134683703
JumpReference10 ==
    << U64(\hec, \h87, \h90, \h73, \h67, \h3d, \hf4, \h37),
       U64(\h20, \hd2, \h12, \ha3, \h9a, \hca, \h1e, \haa),
       U64(\hc1, \h9d, \h71, \h2a, \h27, \he4, \h0f, \h57),
       U64(\h6f, \hf0, \he0, \h8d, \hc7, \h10, \h26, \ha1),
       U64(\h96, \h6b, \hdc, \heb, \h5c, \h42, \h37, \h10),
       U64(\h78, \h77, \h0c, \h15, \hd4, \h7e, \h19, \hea),
       U64(\h84, \hcf, \haa, \he7, \h3a, \ha9, \h75, \h6a),
       U64(\h62, \h40, \h83, \h45, \h71, \h5a, \h13, \he6),
       U64(\h81, \h96, \he0, \h89, \h40, \hff, \h93, \hc8),
       U64(\h87, \h60, \h9d, \h8b, \h63, \h61, \hdc, \h82) >>

\* the ten values asserted by
\* xoshiro256plusplus_long_jump_reference_implementation, the first being
\* 13097851138432240629
LongJumpReference10 ==
    << U64(\hb5, \hc4, \hea, \h37, \h0b, \h33, \h0b, \hf5),
       U64(\h51, \h73, \hcc, \h69, \h3c, \h0f, \ha5, \h33),
       U64(\h1d, \hc5, \hdf, \h01, \h51, \hf7, \hb4, \h91),
       U64(\he7, \hb0, \h55, \hcf, \hea, \hbc, \h46, \h61),
       U64(\h0a, \h7a, \hf0, \h95, \h4d, \ha3, \h00, \h6b),
       U64(\h37, \hdd, \h1e, \h37, \h05, \h09, \h60, \h85),
       U64(\he0, \h69, \ha2, \h72, \h10, \h41, \hf7, \had),
       U64(\hd0, \hb2, \h04, \h9a, \ha1, \h3f, \hf3, \hb0),
       U64(\hd7, \h55, \h2a, \ha4, \h07, \h98, \h37, \h5a),
       U64(\he3, \h07, \h17, \hec, \h1d, \h66, \hc9, \hf3) >>

\* the state jump leaves the generator of words 1, 2, 3, 4 in
Jumped1234 == jump(SeedWords1234).state

\* the state long_jump leaves the generator of words 1, 2, 3, 4 in
LongJumped1234 == long_jump(SeedWords1234).state

\* C21: the generator built by from_seed from the little-endian words
\* 1, 2, 3, 4, once jump has been called on it, returns on its next ten
\* next_u64 calls the ten values of the jump reference sequence, and once
\* long_jump has been called on it instead, the ten values of the long_jump
\* reference sequence.
C21_JumpReference ==
    /\ (last.op = "jump" /\ last.pre = SeedWords1234)
        => draw_n(rng.state, 10).results = JumpReference10
    /\ (last.op = "long_jump" /\ last.pre = SeedWords1234)
        => draw_n(rng.state, 10).results = LongJumpReference10
    /\ \A k \in 1..10 :
        (last.op = "next_u64" /\ calls = k /\ jumps = 1)
        => /\ last.pre = draw_n(Jumped1234, k - 1).state
                => last.result = JumpReference10[k]
           /\ last.pre = draw_n(LongJumped1234, k - 1).state
                => last.result = LongJumpReference10[k]

\* the tenth call after jump on that generator
C21_Witness ==
    /\ last.op = "next_u64"
    /\ calls = 10
    /\ jumps = 1
    /\ last.pre = draw_n(Jumped1234, 9).state
    /\ last.result = U64(\h87, \h60, \h9d, \h8b, \h63, \h61, \hdc, \h82)

\* the tenth call after long_jump on that generator
C21_WitnessLong ==
    /\ last.op = "next_u64"
    /\ calls = 10
    /\ jumps = 1
    /\ last.pre = draw_n(LongJumped1234, 9).state
    /\ last.result = U64(\he3, \h07, \h17, \hec, \h1d, \h66, \hc9, \hf3)

(***************************************************************************)
(* SplitMix64 on its own (rand/rng.rs 144-158).                            *)
(***************************************************************************)
\* the mixer is started at 0, at 0x0123456789abcdef and at 1..MaxMixSeeds
MaxMixSeeds == 8

MixSeeds == Seeds64 \cup { Small64(n) : n \in 1..MaxMixSeeds }

\* let mut rng = SplitMix64 { state }: here rng is the mixer and rng.state
\* its scalar state
InitSplitMix ==
    /\ \E s \in MixSeeds :
        /\ rng = [state |-> s]
        /\ last = [op |-> "SplitMix64", seed |-> s]
    /\ calls = 0
    /\ dist = NoDist
    /\ samp = Idle
    /\ other = NoClone
    /\ jumps = 0

\* rng.next_u64() on the mixer
SplitMixNextU64 ==
    /\ calls + 1 <= MaxCalls
    /\ \E d \in {splitmix_next_u64(rng.state)} :
        /\ rng' = [state |-> d.state]
        /\ last' = [op |-> "splitmix_next_u64", seed |-> last.seed,
                    pre |-> rng.state, result |-> d.result]
    /\ calls' = calls + 1
    /\ UNCHANGED <<dist, samp, other, jumps>>

NextSplitMix == SplitMixNextU64

SpecSplitMix == InitSplitMix /\ [][NextSplitMix]_vars

(***************************************************************************)
(* C22: the reference sequence of SplitMix64                               *)
(***************************************************************************)
\* the ten values asserted by splitmix64_reference_implementation
SplitMixReference10 ==
    << U64(\he2, \h20, \ha8, \h39, \h7b, \h1d, \hcd, \haf),
       U64(\h6e, \h78, \h9e, \h6a, \ha1, \hb9, \h65, \hf4),
       U64(\h06, \hc4, \h5d, \h18, \h80, \h09, \h45, \h4f),
       U64(\hf8, \h8b, \hb8, \ha8, \h72, \h4c, \h81, \hec),
       U64(\h1b, \h39, \h89, \h6a, \h51, \ha8, \h74, \h9b),
       U64(\h53, \hcb, \h9f, \h0c, \h74, \h7e, \ha2, \hea),
       U64(\h2c, \h82, \h9a, \hbe, \h1f, \h45, \h32, \he1),
       U64(\hc5, \h84, \h13, \h3a, \hc9, \h16, \hab, \h3c),
       U64(\h3e, \he5, \h78, \h90, \h41, \hc9, \h8a, \hc3),
       U64(\hf3, \hb8, \h48, \h8c, \h36, \h8c, \hb0, \ha6) >>

\* C22: SplitMix64 started at the scalar state 0 returns, on its first ten
\* next_u64 calls, the ten values of the reference sequence, which begins
\* 16294208416658607535, 7960286522194355700, 487617019471545679,
\* 17909611376780542444.
C22_SplitMixReference ==
    \A k \in 1..10 :
        (last.op = "splitmix_next_u64" /\ last.seed = Zero64 /\ calls = k)
        => last.result = SplitMixReference10[k]

\* the tenth call on the mixer started at 0
C22_Witness ==
    /\ last.op = "splitmix_next_u64"
    /\ last.seed = Zero64
    /\ calls = 10
    /\ last.result = U64(\hf3, \hb8, \h48, \h8c, \h36, \h8c, \hb0, \ha6)

(***************************************************************************)
(* C24: the steps of sample_u64_in_range                                   *)
(***************************************************************************)
\* the double-width product x * range has the high word hi and the low word lo
IsWideProduct(x, range, hi, lo) ==
    /\ hi \in Words
    /\ lo \in Words
    /\ x * range = hi * Exp2(WordBits) + lo

\* where a call stands after its draws: after one draw it has returned the
\* high word iff the low word is at least range, after a later draw iff the
\* low word is at least 2^WordBits - range
C24_Stands ==
    (HasUniform /\ samp.pc \in {"loop", "done"}) =>
        LET range == dist.new.uniform.val.range
            threshold == Exp2(WordBits) - range
        IN  /\ range # 0
            /\ threshold = wrapping_neg(range)
            /\ \E hi, lo \in Words :
                /\ IsWideProduct(samp.raw, range, hi, lo)
                /\ samp.draws >= 1
                /\ (samp.draws = 1 /\ samp.pc = "done") => (lo >= range /\ samp.hi = hi)
                /\ (samp.draws = 1 /\ samp.pc = "loop") => lo < range
                /\ (samp.draws > 1 /\ samp.pc = "done") => (lo >= threshold /\ samp.hi = hi)
                /\ (samp.draws > 1 /\ samp.pc = "loop") => lo < threshold

\* how a call moves: a call starts with one draw, and a redraw is made only
\* inside the loop and adds one draw
C24_Moves ==
    HasUniform =>
        /\ samp.pc \in {"idle", "done"} => samp'.draws = 1
        /\ samp.pc = "loop" => samp'.draws = samp.draws + 1
        /\ samp'.draws > 1 => samp.pc = "loop"

\* C24: sample_u64_in_range on a range that is not zero draws x and forms the
\* double-width product x * range = (hi, lo); if lo >= range it returns that
\* hi after exactly one draw; otherwise it draws again until the first redraw
\* whose lo >= threshold = 2^WordBits - range = (-range) mod 2^WordBits and
\* returns that redraw's hi, after 1 + (number of redraws) draws.
C24_SampleInRangeSteps == []C24_Stands /\ [][C24_Moves]_vars

\* a call that returned the high word of its second redraw, whose low word 3
\* is at least the threshold 3 and below the range 5
C24_Witness ==
    /\ HasUniform
    /\ samp.pc = "done"
    /\ samp.draws = 3
    /\ dist.new.uniform.val.range = 5
    /\ samp.raw = 7
    /\ samp.hi = 4

(***************************************************************************)
(* Sampling with every word value drawn again and again.                   *)
(***************************************************************************)
\* an iteration of the rejection loop past the MaxDraws-th draw of the call,
\* from which on the draws are no longer counted
SampleRedrawOn ==
    /\ samp.pc = "loop"
    /\ samp.draws = MaxDraws
    /\ \E x \in Words : LoopIteration(x, MaxDraws)

\* the next iteration of the loop draws x
LoopDraws(x) ==
    LoopIteration(x, IF samp.draws < MaxDraws THEN samp.draws + 1 ELSE MaxDraws)

NextUniformFair ==
    \/ SampleFull
    \/ SampleFirst
    \/ SampleRedraw
    \/ SampleRedrawOn

\* UniformInt::new(0..=upper) for every upper, and UniformInt::default(), on
\* the unsigned type as wide as a word: every range size there is
InitUniformFair ==
    /\ InitUniform
    /\ dist.ty = [bits |-> WordBits, signed |-> FALSE]
    /\ dist.ctor = "new" =>
        /\ dist.lower = [kind |-> "Included", val |-> 0]
        /\ dist.upper.kind = "Included"

\* rng.next_u64() returns every word value again and again: no value stays
\* undrawn for ever while the loop runs
SpecUniformFair ==
    /\ InitUniformFair
    /\ [][NextUniformFair]_vars
    /\ \A x \in Words : WF_vars(LoopDraws(x))

(***************************************************************************)
(* C23: sampling terminates                                                *)
(***************************************************************************)
\* every validated distribution has a raw value that the loop accepts, and a
\* call that returned has a value
C23_Accepting ==
    /\ HasUniform => \E x \in Words : redraw(x, dist.new.uniform.val.range).accepted
    /\ (dist.new.tag = "ok" /\ samp.pc = "done") =>
        \/ samp.path = "random" /\ samp.value \in ValuesOf(dist.ty)
        \/ samp.path = "uniform" /\ ~samp.out.overflow
                /\ samp.out.value \in ValuesOf(dist.ty)

\* C23: once a UniformInt is validated sampling cannot fail: there is always
\* a raw value that the redraw step accepts, a call that returns returns a
\* value of the type, and, every word value being drawn again and again, a
\* call that entered the rejection loop leaves it and returns.
C23_SampleTerminates ==
    /\ []C23_Accepting
    /\ (samp.pc = "loop") ~> (samp.pc = "done")

\* a call that left the loop after more draws than are counted
C23_Witness ==
    /\ HasUniform
    /\ samp.pc = "done"
    /\ samp.path = "uniform"
    /\ samp.draws = MaxDraws
    /\ ~samp.out.overflow

(***************************************************************************)
(* C25: how often the rejection loop redraws                               *)
(***************************************************************************)
\* the number of words that an iteration of the loop rejects
LoopRejected(range) ==
    Cardinality({x \in Words : ~redraw(x, range).accepted})

\* C25: counted over all 2^WordBits equally likely raw values, a redraw
\* inside the rejection loop is rejected for fewer than `range` of them and
\* accepted for at least 2^WordBits - range of them, so that a call inside the
\* loop expects at most 1 + range / 2^WordBits further draws.
C25_RedrawsRare ==
    (HasUniform /\ samp.pc = "loop") =>
        LET range == dist.new.uniform.val.range
        IN  /\ LoopRejected(range) < range
            /\ LoopAccepted(range) >= Exp2(WordBits) - range

(***************************************************************************)
(* C26: the accumulator procedure of jump and long_jump                    *)
(***************************************************************************)
\* the states st, next_u64(st), ..., of a generator that n - 1 next_u64
\* calls advance from st
RECURSIVE Orbit(_, _)
Orbit(st, n) ==
    IF n = 1
    THEN <<st>>
    ELSE CHOOSE r \in { a \o Orbit(next_u64(a[Len(a)]).state, n - (n \div 2)) :
                            a \in { Orbit(st, n \div 2) } } :
            TRUE

\* bit number k of the polynomial, counted from the low bit of its first word
PolyBit(poly, k) == Bit(poly[(k \div 64) + 1], k % 64)

\* the xor of the states orbit[k + 1] for the bits k of lo .. hi - 1 that
\* are set in the polynomial
RECURSIVE XorSelected(_, _, _, _)
XorSelected(orbit, poly, lo, hi) ==
    IF hi - lo = 1
    THEN IF PolyBit(poly, lo) = 1 THEN orbit[lo + 1] ELSE AllZeroState
    ELSE xor_state(XorSelected(orbit, poly, lo, (lo + hi) \div 2),
                   XorSelected(orbit, poly, (lo + hi) \div 2, hi))

\* the state a jump leaves, from the states the generator passes through
Accumulated(orbit, poly) == XorSelected(orbit, poly, 0, 256)

\* C26: jump and long_jump leave as the generator's state the accumulator
\* that starts all-zero and to which, for bit 0..63 of each of the four words
\* of the polynomial in order, the generator's state before the k-th
\* next_u64 call of the procedure is xor-ed iff bit k is set; next_u64 is
\* called once per bit whatever the bit, 256 times in all, and the state
\* those calls lead to is dropped.
C26_AccumulatorProcedure ==
    (last.op \in {"jump", "long_jump"}) =>
        LET poly == IF last.op = "jump" THEN JUMP ELSE LONG_JUMP
            Holds(orbit) ==
                /\ rng.state = Accumulated(orbit, poly)
                /\ last.advanced = orbit[257]
                /\ rng.state # last.advanced
        IN  /\ last.draws = 256
            /\ Holds(Orbit(last.pre, 257))

\* a long_jump made after a jump and a next_u64 call
C26_Witness ==
    /\ last.op = "long_jump"
    /\ jumps = 2
    /\ calls = 1
    /\ last.draws = 256
    /\ rng.state # last.pre

(***************************************************************************)
(* C29: jumps commute with next_u64 and with each other                    *)
(***************************************************************************)
\* C29: for the state s a jump is called on, the state after next_u64 then
\* jump equals the state after jump then next_u64, likewise for long_jump,
\* and jump then long_jump gives the state long_jump then jump gives.
C29_JumpsCommute ==
    /\ last.op = "jump" =>
        /\ next_u64(rng.state).state = jump(next_u64(last.pre).state).state
        /\ long_jump(rng.state).state = jump(long_jump(last.pre).state).state
    /\ last.op = "long_jump" =>
        /\ next_u64(rng.state).state = long_jump(next_u64(last.pre).state).state
        /\ jump(rng.state).state = long_jump(jump(last.pre).state).state

\* a jump made after a next_u64 call on the generator of words 1, 2, 3, 4,
\* which leaves the state that the first next_u64 call after a jump leaves
C29_Witness ==
    /\ last.op = "jump"
    /\ calls = 1
    /\ jumps = 1
    /\ last.pre = next_u64(SeedWords1234).state
    /\ rng.state = next_u64(Jumped1234).state
    /\ rng.state # Jumped1234

(***************************************************************************)
(* C27, C28: the descriptor UniformInt::new stores, and the ranges it      *)
(* accepts                                                                 *)
(***************************************************************************)
\* C27: whenever UniformInt::new returns a distribution with a descriptor,
\* the stored range is upper - lower + 1 of the normalized inclusive bounds,
\* is not zero and fits T's unsigned counterpart, and the stored lower is the
\* normalized lower bound; the unwraps of checked_add(1) and NonZero::new
\* never panic, the range T::MIN..=T::MAX having no descriptor.
C27_RangeStored ==
    LET lower == NormLower(dist.ty, dist.lower)
        upper == NormUpper(dist.ty, dist.upper)
    IN  /\ dist.new # Panic("unwrap on None")
        /\ HasUniform =>
            /\ dist.new.uniform.val.range = upper - lower + 1
            /\ dist.new.uniform.val.range \in 1..(Exp2(dist.ty.bits) - 1)
            /\ dist.new.uniform.val.lower = lower
        /\ (dist.new.tag = "ok" /\ lower = MIN(dist.ty) /\ upper = MAX(dist.ty))
            => ~dist.new.uniform.some

\* a signed type with a range one short of the full range, larger than T::MAX
C27_Witness ==
    /\ HasUniform
    /\ dist.ty.signed
    /\ dist.new.uniform.val.range = Exp2(dist.ty.bits) - 1
    /\ dist.new.uniform.val.range > MAX(dist.ty)
    /\ dist.new.uniform.val.lower = MIN(dist.ty) + 1

\* C28: UniformInt::new accepts every range that holds at least one value,
\* a single-value range such as a..=a or a..(a+1) included: it fails only
\* when the normalized inclusive bounds have lower > upper.
C28_NonEmptyAccepted ==
    (dist.ctor = "new"
        /\ NormLower(dist.ty, dist.lower) <= NormUpper(dist.ty, dist.upper))
    => dist.new.tag = "ok"

(***************************************************************************)
(* UniformInt<u8>::sample on the generator (rand/integer.rs), with the     *)
(* words of the generator at their full width.                             *)
(***************************************************************************)
\* the descriptors sampled from: UniformInt::<u8>::new(0..3),
\* UniformInt::<u8>::new(13..30), and UniformInt::<u8>::default()
SampleDists ==
    { Some([lower |-> 0, range |-> 3]), Some([lower |-> 13, range |-> 17]), None }

\* a < b on two u64
lt_u64(a, b) ==
    \E i \in 1..8 : a[i] < b[i] /\ \A j \in (i + 1)..8 : a[j] = b[j]

\* wide_mul (integer.rs 161-166) on a u64 and a u64 below 256: the high and
\* the low word of the 128-bit product
wide_mul_u64(lhs, rhs) ==
    LET k  == rhs[1]
        r1 == lhs[1] * k
        r2 == lhs[2] * k + (r1 \div 256)
        r3 == lhs[3] * k + (r2 \div 256)
        r4 == lhs[4] * k + (r3 \div 256)
        r5 == lhs[5] * k + (r4 \div 256)
        r6 == lhs[6] * k + (r5 \div 256)
        r7 == lhs[7] * k + (r6 \div 256)
        r8 == lhs[8] * k + (r7 \div 256)
    IN  << Small64(r8 \div 256),
           <<r1 % 256, r2 % 256, r3 % 256, r4 % 256,
             r5 % 256, r6 % 256, r7 % 256, r8 % 256>> >>

\* range.wrapping_neg() on a u64
wrapping_neg_u64(v) == wrapping_add(xor(v, Ones64), Small64(1))

\* sample_u64_in_range up to the test of the first draw (integer.rs 170-172)
first_draw_u64(st, range) ==
    LET Test(d, m) == [state |-> d.state, hi |-> m[1],
                       accepted |-> ~lt_u64(m[2], range)]
        Mul(d) == Test(d, wide_mul_u64(d.result, range))
    IN  Mul(next_u64(st))

\* sample_u64_in_range, one iteration of the loop (integer.rs 175-180)
redraw_u64(st, range) ==
    LET Test(d, m) == [state |-> d.state, hi |-> m[1],
                       accepted |-> ~lt_u64(m[2], wrapping_neg_u64(range))]
        Mul(d) == Test(d, wide_mul_u64(d.result, range))
    IN  Mul(next_u64(st))

\* UniformInt::<u8>::new(..).sample(rng), up to the return of the first hi
\* or the entry into the rejection loop
SampleU8 ==
    /\ samp.pc # "loop"
    /\ calls + 1 <= MaxTypedCalls
    /\ \E u \in SampleDists :
        IF u.some
        THEN \E d \in {first_draw_u64(rng.state, Small64(u.val.range))} :
                /\ rng' = [state |-> d.state]
                /\ last' = [op |-> "sample", pre |-> rng.state, draws |-> 1]
                /\ samp' = IF d.accepted
                           THEN [pc |-> "done", path |-> "uniform",
                                 value |-> u.val.lower + d.hi[1]]
                           ELSE [pc |-> "loop", uniform |-> u.val]
        ELSE \E r \in {random_int(rng.state, "u8")} :
                /\ rng' = [state |-> r.state]
                /\ last' = [op |-> "sample", pre |-> rng.state, draws |-> r.draws]
                /\ samp' = [pc |-> "done", path |-> "random", value |-> r.value[1]]
    /\ calls' = calls + 1
    /\ UNCHANGED <<dist, other, jumps>>

\* one iteration of the rejection loop of that call
SampleU8Redraw ==
    /\ samp.pc = "loop"
    /\ calls + 1 <= MaxCalls
    /\ \E d \in {redraw_u64(rng.state, Small64(samp.uniform.range))} :
        /\ rng' = [state |-> d.state]
        /\ last' = [op |-> "sample_redraw", pre |-> rng.state, draws |-> 1]
        /\ samp' = IF d.accepted
                   THEN [pc |-> "done", path |-> "uniform",
                         value |-> samp.uniform.lower + d.hi[1]]
                   ELSE samp
    /\ calls' = calls + 1
    /\ UNCHANGED <<dist, other, jumps>>

\* the generator under every call that draws from it; no other call is made
\* while sample is in its loop
NextAll ==
    \/ samp.pc # "loop" /\ NextU64
    \/ samp.pc # "loop" /\ FillBytes
    \/ samp.pc # "loop" /\ RandomInt
    \/ samp.pc # "loop" /\ FillRandomInt
    \/ samp.pc # "loop" /\ RandomFloat
    \/ samp.pc # "loop" /\ RandomLarge
    \/ samp.pc # "loop" /\ RandomBool
    \/ SampleU8
    \/ SampleU8Redraw

\* the generators of SpecAll: from_seed on the words 1, 2, 3, 4 and on the
\* words 0, 0, 1, 0 (whose first draw is 0), and seed_from_u64(0)
InitAll ==
    /\ Init
    /\ \/ last.op = "from_seed"
          /\ last.seed \in { SeedOf(Small64(1), Small64(2), Small64(3), Small64(4)),
                              SeedOf(Zero64, Zero64, Small64(1), Zero64) }
       \/ last.op = "seed_from_u64" /\ last.seed = Zero64

SpecAll == InitAll /\ [][NextAll]_vars

(***************************************************************************)
(* C30: the state advance is injective and keeps the state non-zero        *)
(***************************************************************************)
\* w = v ^ (v << 17) solved for v
unshift17(w) == xor(xor(w, shl(w, 17)), xor(shl(w, 34), shl(w, 51)))

\* the state from which next_u64 advances to st, computed backwards from st
unadvance(st) ==
    LET a3 == rotate_left(st[4], 64 - 45)    \* state[3] ^ state[1] of before
        s0 == xor(st[1], a3)
        s1 == unshift17(xor(st[2], st[3]))
        a2 == xor(st[2], s1)                  \* state[2] ^ state[0] of before
    IN  <<s0, s1, xor(a2, s0), xor(a3, s1)>>

\* unadvance applied n times
RECURSIVE unadvance_n(_, _)
unadvance_n(st, n) ==
    IF n = 0 THEN st ELSE unadvance_n(unadvance(st), n - 1)

\* C30: the state advance of next_u64 is injective (the state before is
\* recovered from the state after), maps the all-zero state to itself and
\* every other state to a state that is not all-zero: a generator built with
\* a state that is not all-zero keeps such a state after every next_u64,
\* fill_bytes, random, fill_random and sample call.
C30_StateStaysNonZero ==
    /\ rng.state # AllZeroState
    /\ next_u64(AllZeroState).state = AllZeroState
    /\ unadvance(AllZeroState) = AllZeroState
    /\ last.op \notin {"from_seed", "seed_from_u64"} =>
        LET draws == IF last.op = "next_u64" THEN 1 ELSE last.draws
        IN  /\ last.pre # AllZeroState
            /\ last.pre # rng.state \/ draws = 0
            /\ unadvance_n(rng.state, draws) = last.pre

\* a sample call in its rejection loop, three draws after the first
C30_Witness ==
    /\ samp.pc = "loop"
    /\ last.op = "sample_redraw"
    /\ calls = 4
    /\ rng.state # AllZeroState
    /\ unadvance(rng.state) = last.pre

====
